---- MODULE Spec2Model ----
(***************************************************************************)
(* Paper-trading executor of ai-crypto-agent: mock_trade_executor.py       *)
(* (apply_actions, compute_nav, init_portfolio) and the decision check of  *)
(* DeepSeek_Agent.py (validate_decision, run_agent's decision log).        *)
(*                                                                         *)
(* Numbers.  The code computes in binary floating point.  The model uses   *)
(* fixed point, with inputs (sizes in multiples of 4 USD, entries at 40000  *)
(* or 50000 USD) chosen so that every product and quotient the code forms  *)
(* is exact in these units:                                                *)
(*   money     1 unit = 0.00001 USD   (Dollar units = 1 USD)               *)
(*   price     1 unit = 500 USD       (100 = 50000 USD)                    *)
(*   quantity  1 unit = money unit / price unit, so that                   *)
(*             quantity * price is money                                   *)
(* round(x, 2) rounds money to a whole number of cents.                    *)
(* Timestamps (last_update, opened_at, time) are not modelled; the          *)
(* timestamp of a decision record is the number of the cycle whose agent   *)
(* wrote it.                                                               *)
(***************************************************************************)
EXTENDS Integers, Sequences, FiniteSets, TLC

\* ------------------------------------------------------------------------
\* Bounds of the model
\* ------------------------------------------------------------------------
MaxCycles == 2
MaxActions == 2
MaxPositions == 2
MaxCalls == 2
MaxBars == 3
MaxTrades == 2
MaxRows == 4
MaxRuns == 2

\* ------------------------------------------------------------------------
\* Units and program constants
\* ------------------------------------------------------------------------
Dollar == 1000 * 100
Cent == Dollar \div 100
\* 50000 USD and 40000 USD in price units
P50k == 10 * 10
P40k == 8 * 10
\* one whole coin in quantity units: a coin at price 1 (500 USD) is 500 USD
Coin == 500 * Dollar

\* FEE_RATE = 0.001: fee = notional * FEE_RATE = notional / FeeDivisor
FeeDivisor == 1000
\* init_portfolio: "nav": 10000.0, "cash": 10000.0
StartCash == 10000
\* validate_decision: lev > 3
MaxLeverage == 3
\* validate_decision: total_new_risk > nav * 0.5 = nav / RiskDivisor
RiskDivisor == 2
\* system prompt: Max Open Positions: 3
MaxOpenPositions == 3
\* history = history[:50]
MaxHistory == 50

Symbols == {"BTC", "ETH"}
ALLOWED_ACTIONS == {"open_long", "open_short", "close_position", "adjust_sl", "hold"}

\* ------------------------------------------------------------------------
\* Python helpers
\* ------------------------------------------------------------------------
Abs(x) == IF x < 0 THEN -x ELSE x

\* round(x, 2): nearest cent, ties to the even cent
Round2(x) ==
    LET q == x \div Cent
        r == x % Cent
    IN  IF 2 * r < Cent THEN q * Cent
        ELSE IF 2 * r > Cent THEN (q + 1) * Cent
        ELSE IF q % 2 = 0 THEN q * Cent ELSE (q + 1) * Cent

\* notional * FEE_RATE
Fee(notional) == notional \div FeeDivisor

\* d.get(k): the value, or None (falsy, modelled as 0) when the key is absent
Get(d, k) == IF k \in DOMAIN d THEN d[k] ELSE 0

\* An exit_plan that is JSON null (Python None) instead of a dict
NullPlan == [null |-> TRUE]
IsNone(plan) == "null" \in DOMAIN plan

\* dict.update: keys of new override keys of old
DictUpdate(old, new) ==
    [k \in (DOMAIN old) \cup (DOMAIN new) |-> IF k \in DOMAIN new THEN new[k] ELSE old[k]]

RECURSIVE SumSeq(_)
SumSeq(s) == IF s = <<>> THEN 0 ELSE Head(s) + SumSeq(Tail(s))

\* ------------------------------------------------------------------------
\* Files
\* ------------------------------------------------------------------------
Missing == [kind |-> "missing"]
Malformed == [kind |-> "malformed"]
Json(obj) == [kind |-> "json", obj |-> obj]

\* init_portfolio's fresh portfolio
DefaultPortfolio ==
    [nav |-> StartCash * Dollar, cash |-> StartCash * Dollar, positions |-> <<>>]

\* ------------------------------------------------------------------------
\* get_market_data_map: coins without a close are dropped; high and low
\* fall back to close
\* ------------------------------------------------------------------------
get_market_data_map(coins) ==
    LET priced == {s \in DOMAIN coins : "close" \in DOMAIN coins[s]}
    IN  [s \in priced |->
            [close |-> coins[s].close,
             high  |-> IF "high" \in DOMAIN coins[s] THEN coins[s].high ELSE coins[s].close,
             low   |-> IF "low" \in DOMAIN coins[s] THEN coins[s].low ELSE coins[s].close]]

\* ------------------------------------------------------------------------
\* compute_nav
\* ------------------------------------------------------------------------
\* compute_nav pricing an instrument without market data at zero
MarkPrice_Zero(pos, market_map) ==
    IF pos.symbol \in DOMAIN market_map THEN market_map[pos.symbol].close
    ELSE 0

\* market_map.get(symbol, {}).get("close", entry_price)
MarkPrice(pos, market_map) ==
    IF pos.symbol \in DOMAIN market_map THEN market_map[pos.symbol].close
    ELSE pos.entry_price

\* pnl = (current_price - entry_price) * qty
PositionPnl(pos, market_map) ==
    (MarkPrice(pos, market_map) - pos.entry_price) * pos.quantity

\* compute_nav re-basing the position on the mark price
MarkPosition_Rebase(pos, market_map) ==
    [pos EXCEPT !.current_price = MarkPrice(pos, market_map),
                !.unrealized_pnl = Round2(PositionPnl(pos, market_map)),
                !.entry_price = MarkPrice(pos, market_map)]

\* the loop body's writes to pos
MarkPosition(pos, market_map) ==
    [pos EXCEPT !.current_price = MarkPrice(pos, market_map),
                !.unrealized_pnl = Round2(PositionPnl(pos, market_map))]

\* compute_nav with the margin left out of the equity
TotalEquity_NoMargin(portfolio, market_map) ==
    portfolio.cash
    + SumSeq([i \in 1..Len(portfolio.positions) |->
                PositionPnl(portfolio.positions[i], market_map)])

\* total_equity = cash + sum(margin + pnl)
TotalEquity(portfolio, market_map) ==
    portfolio.cash
    + SumSeq([i \in 1..Len(portfolio.positions) |->
                portfolio.positions[i].margin
                + PositionPnl(portfolio.positions[i], market_map)])

compute_nav(portfolio, market_map) ==
    [portfolio EXCEPT
        !.positions = [i \in 1..Len(portfolio.positions) |->
                          MarkPosition(portfolio.positions[i], market_map)],
        !.nav = Round2(TotalEquity(portfolio, market_map))]

\* ------------------------------------------------------------------------
\* Inputs: market payloads and LLM decisions
\* ------------------------------------------------------------------------
\* market_data of one coin of deepseek_payload.json
Flat == [close |-> P50k]
Wide == [close |-> P50k, high |-> P50k + 2, low |-> P50k - 5]
Up   == [close |-> P50k, high |-> P50k + 2, low |-> P50k - 2]
Dip  == [close |-> P40k]
NoClose == [high |-> P50k + 2]

\* "coins" of the payload, by symbol
CoinMaps ==
    {[BTC |-> b, ETH |-> e] : b \in {Flat, Wide, Dip, NoClose}, e \in {Flat, Up, NoClose}}
Payloads == {Json(c) : c \in CoinMaps}

\* exit plans of the decisions
PlanLong == [take_profit |-> P50k + 2, stop_loss |-> P50k - 4]
PlanShort == [take_profit |-> P50k - 4, stop_loss |-> P50k + 2]
PlanTarget == [take_profit |-> P50k + 2]
PlanStop == [stop_loss |-> P50k - 2]
PlanLower == [stop_loss |-> P50k - 6]
NoPlan == [k \in {} |-> 0]

Act(symbol, action, size, leverage, plan) ==
    [symbol |-> symbol, action |-> action, position_size_usd |-> size * Dollar,
     leverage |-> leverage, exit_plan |-> plan]

\* the actions an LLM decision may hold
ActionSet ==
    { Act("BTC", "open_long", 1000, 2, PlanLong),
      Act("ETH", "open_long", 1004, 1, PlanTarget),
      Act("BTC", "open_short", 6000, 1, PlanShort),
      Act("ETH", "open_long", 1000, 5, NullPlan),
      Act("BTC", "close_position", 0, 0, NullPlan),
      Act("BTC", "adjust_sl", 0, 0, PlanStop),
      Act("BTC", "adjust_sl", 0, 0, PlanLower),
      Act("ETH", "hold", 0, 0, NoPlan),
      Act("BTC", "buy", 1000, 1, NoPlan),
      Act("ETH", "open_long", -1000, 1, NoPlan) }

Batches == UNION {[1..n -> ActionSet] : n \in 0..MaxActions}

\* ------------------------------------------------------------------------
\* validate_decision: the warnings it prints
\* ------------------------------------------------------------------------
IsOpen(act) == act.action \in {"open_long", "open_short"}

\* float(act.get("leverage", 1) or 1)
LeverageOf(act) == IF act.leverage = 0 THEN 1 ELSE act.leverage

\* nav = float(portfolio.get("nav", 10000)), 10000.0 when the state cannot be parsed
GateNav(f) == IF f.kind = "json" THEN f.obj.nav ELSE StartCash * Dollar

total_new_risk(actions) ==
    SumSeq([i \in 1..Len(actions) |->
              IF IsOpen(actions[i]) THEN actions[i].position_size_usd ELSE 0])

validate_decision(actions, f) ==
    IF actions = <<>> THEN {"no_actions"}
    ELSE
      {"invalid_action" : i \in {j \in 1..Len(actions) : actions[j].action \notin ALLOWED_ACTIONS}}
      \cup {"negative_size" : i \in {j \in 1..Len(actions) : actions[j].position_size_usd < 0}}
      \cup {"leverage_too_high" : i \in {j \in 1..Len(actions) : LeverageOf(actions[j]) > MaxLeverage}}
      \cup (IF total_new_risk(actions) > GateNav(f) \div RiskDivisor
            THEN {"total_risk"} ELSE {"passed"})

\* ------------------------------------------------------------------------
\* State
\* ------------------------------------------------------------------------
VARIABLES
    portfolio_file,      \* portfolio_state.json
    trade_log,           \* trade_log.csv, one record per row
    decision_log,        \* agent_decision_log.json: its records, newest first
    payload,             \* qlib_data/deepseek_payload.json
    warnings,            \* what validate_decision printed for the newest decision
    pc,                  \* "idle", "agent", "exec", "tpsl", "actions"; "unmarked", "marked"
    cycle,               \* trading cycles started
    outcome,             \* how the last run of apply_actions ended
    started,             \* portfolio_file and trade_log as the running cycle found them
    portfolio,           \* apply_actions: portfolio
    market_map,          \* apply_actions: market_map
    actions,             \* apply_actions: decision's actions
    positions,           \* apply_actions: positions
    remaining_positions, \* apply_actions: remaining_positions
    idx,                 \* position of the running for loop
    entry_price,         \* apply_actions: the local entry_price, unbound until assigned
    calls,               \* the calls of the backtests' position sizers, with what they returned
    returns,             \* the per-bar returns a performance report is computed from
    trades_pnl,          \* run_backtest: trades_pnl, the return of each finished trade
    metrics,             \* the performance report, once computed
    backtest,            \* the locals of a running run_backtest, bar by bar
    scheduler,           \* scheduler.py: where main is, and the jobs that are due
    children             \* the run_daily_cycle.py processes the scheduler has started

files == <<portfolio_file, trade_log, decision_log, payload>>
locals == <<portfolio, market_map, actions, positions, remaining_positions, idx, entry_price>>
\* the state of the research scripts (backtests), which the trading cycle
\* never touches
research == <<calls, returns, trades_pnl, metrics, backtest>>
\* scheduler.py and the run_daily_cycle.py processes under it
orchestration == <<scheduler, children>>
vars == <<portfolio_file, trade_log, decision_log, payload, warnings, pc, cycle, outcome,
          started, portfolio, market_map, actions, positions, remaining_positions, idx,
          entry_price, calls, returns, trades_pnl, metrics, backtest, scheduler, children>>

\* no report yet
Pending == [fn |-> "none"]

\* no run_backtest is running
NotRunning == [script |-> "none"]

\* scheduler.py is not running
NoScheduler ==
    /\ scheduler = [at |-> "none"]
    /\ children = <<>>

\* no research script is running
NoResearch ==
    /\ calls = <<>>
    /\ returns = <<>>
    /\ trades_pnl = <<>>
    /\ metrics = Pending
    /\ backtest = NotRunning

Unbound == [bound |-> FALSE]
Bound(v) == [bound |-> TRUE, value |-> v]

\* the locals of apply_actions before it runs and after it has returned
NoLocals ==
    /\ portfolio = DefaultPortfolio
    /\ market_map = <<>>
    /\ actions = <<>>
    /\ positions = <<>>
    /\ remaining_positions = <<>>
    /\ idx = 0
    /\ entry_price = Unbound

DropLocals ==
    /\ portfolio' = DefaultPortfolio
    /\ market_map' = <<>>
    /\ actions' = <<>>
    /\ positions' = <<>>
    /\ remaining_positions' = <<>>
    /\ idx' = 0
    /\ entry_price' = Unbound

Init ==
    /\ portfolio_file \in {Missing, Malformed}
    /\ trade_log = <<>>
    /\ decision_log = Missing
    /\ payload = Missing
    /\ warnings = {}
    /\ pc = "idle"
    /\ cycle = 0
    /\ outcome = "none"
    /\ started = [portfolio_file |-> portfolio_file, trade_log |-> <<>>]
    /\ NoLocals
    /\ NoScheduler
    /\ NoResearch

\* ------------------------------------------------------------------------
\* run_daily_cycle: inference writes the payload, then the agent runs, then
\* the executor
\* ------------------------------------------------------------------------
Inference(p) ==
    /\ UNCHANGED research
    /\ UNCHANGED orchestration
    /\ pc = "idle"
    /\ cycle < MaxCycles
    /\ cycle' = cycle + 1
    /\ payload' = p
    /\ pc' = "agent"
    /\ UNCHANGED <<portfolio_file, trade_log, decision_log, warnings, outcome, started>>
    /\ UNCHANGED locals

\* python mock_trade_executor.py on its own
RunExecutor ==
    /\ UNCHANGED research
    /\ UNCHANGED orchestration
    /\ pc = "idle"
    /\ cycle < MaxCycles
    /\ cycle' = cycle + 1
    /\ pc' = "exec"
    /\ UNCHANGED <<files, warnings, outcome, started>>
    /\ UNCHANGED locals

\* a record of the log once it is no longer the newest: nothing reads the
\* older records, they are kept by their timestamps
Older(record) == [timestamp |-> record.timestamp]

\* the records of agent_decision_log.json, newest first
History == IF decision_log.kind = "json" THEN decision_log.records ELSE <<>>

\* a log that puts the new record last and keeps the first 50
Prepend_Last(decision) ==
    LET all == [k \in 1..Len(History) |-> Older(History[k])] \o <<decision>>
    IN  [kind |-> "json",
         records |-> SubSeq(all, 1, IF Len(all) > MaxHistory THEN MaxHistory ELSE Len(all))]

\* history.insert(0, decision); history = history[:50]
Prepend(decision) ==
    LET all == <<decision>> \o [k \in 1..Len(History) |-> Older(History[k])]
    IN  [kind |-> "json",
         records |-> SubSeq(all, 1, IF Len(all) > MaxHistory THEN MaxHistory ELSE Len(all))]

\* run_agent with the LLM answering the decision d: validate, then prepend
\* to the log
RunAgent(d) ==
    /\ UNCHANGED research
    /\ UNCHANGED orchestration
    /\ pc = "agent"
    /\ warnings' = validate_decision(d, portfolio_file)
    /\ decision_log' = Prepend([actions |-> d, analysis_summary |-> "analysis",
                                 timestamp |-> cycle])
    /\ pc' = "exec"
    /\ UNCHANGED <<portfolio_file, trade_log, payload, cycle, outcome, started>>
    /\ UNCHANGED locals

\* run_agent when the call or the parsing of the answer raises: the error
\* decision, with no actions, is prepended
RunAgentFails ==
    /\ UNCHANGED research
    /\ UNCHANGED orchestration
    /\ pc = "agent"
    /\ warnings' = {}
    /\ decision_log' = Prepend([actions |-> <<>>, analysis_summary |-> "error",
                                 timestamp |-> cycle])
    /\ pc' = "exec"
    /\ UNCHANGED <<portfolio_file, trade_log, payload, cycle, outcome, started>>
    /\ UNCHANGED locals

\* ------------------------------------------------------------------------
\* apply_actions
\* ------------------------------------------------------------------------
\* the process ends: by return, or by an exception nothing catches
Exit(how) ==
    /\ pc' = "idle"
    /\ outcome' = how
    /\ DropLocals

\* init_portfolio's result and the file it leaves
InitPortfolioFile == IF portfolio_file = Missing THEN Json(DefaultPortfolio) ELSE portfolio_file

\* lines 149-184: load the files, mark to market
LoadCycle ==
    /\ UNCHANGED research
    /\ UNCHANGED orchestration
    /\ pc = "exec"
    /\ started' = [portfolio_file |-> portfolio_file, trade_log |-> trade_log]
    /\ UNCHANGED <<trade_log, decision_log, payload, warnings, cycle>>
    /\ IF portfolio_file = Malformed
       THEN \* json.load raises in init_portfolio
            /\ UNCHANGED portfolio_file
            /\ Exit("error")
       ELSE /\ portfolio_file' = InitPortfolioFile
            /\ IF \/ payload = Missing
                  \/ decision_log = Missing
                  \/ decision_log.records = <<>>
               THEN Exit("returned")
               ELSE LET m == get_market_data_map(payload.obj)
                        p == compute_nav(InitPortfolioFile.obj, m)
                    IN  /\ market_map' = m
                        /\ portfolio' = p
                        /\ positions' = p.positions
                        /\ remaining_positions' = <<>>
                        /\ actions' = decision_log.records[1].actions
                        /\ idx' = 1
                        /\ entry_price' = Unbound
                        /\ pc' = "tpsl"
                        /\ UNCHANGED outcome

\* a TP/SL loop that never triggers an exit
ExitCheck_Never(pos, bar, local_entry) == [kind |-> "none"]

\* lines 206-233: which exit, if any, the bar triggers.  A stop is labelled
\* by comparing it with the local entry_price, which this loop assigns only
\* further down (line 237): reading it unbound raises UnboundLocalError.
ExitCheck(pos, bar, local_entry) ==
    LET tp == Get(pos.exit_plan, "take_profit")
        sl == Get(pos.exit_plan, "stop_loss")
        long == pos.side = "long"
        sl_hit == sl # 0 /\ (IF long THEN bar.low <= sl ELSE bar.high >= sl)
        tp_hit == tp # 0 /\ (IF long THEN bar.high >= tp ELSE bar.low <= tp)
    IN  IF sl_hit
        THEN IF ~local_entry.bound THEN [kind |-> "error"]
             ELSE [kind |-> "exit", price |-> sl,
                   reason |-> IF (IF long THEN sl > local_entry.value ELSE sl < local_entry.value)
                              THEN "trailing_stop" ELSE "stop_loss"]
        ELSE IF tp_hit THEN [kind |-> "exit", price |-> tp, reason |-> "take_profit"]
        ELSE [kind |-> "none"]

\* lines 236-265: the trade record of a closed position
CloseRecord(pos, price, reason) ==
    LET pnl == (price - pos.entry_price) * pos.quantity
        notional_exit == Abs(pos.quantity) * price
        fee == Fee(notional_exit)
    IN  [symbol |-> pos.symbol, action |-> "close_position", side |-> pos.side,
         qty |-> pos.quantity, price |-> price, notional |-> notional_exit,
         margin |-> pos.margin, fee |-> fee, realized_pnl |-> pnl - fee,
         reason |-> reason]

\* a close that pays out the P&L but keeps the margin
NetReturn_NoMargin(rec) == rec.realized_pnl

\* net_return = margin + pnl - fee
NetReturn(rec) == rec.margin + rec.realized_pnl

\* lines 187-269: one turn of the TP/SL loop
CheckPosition ==
    /\ UNCHANGED research
    /\ UNCHANGED orchestration
    /\ pc = "tpsl"
    /\ idx <= Len(positions)
    /\ UNCHANGED <<portfolio_file, decision_log, payload, warnings, cycle, started>>
    /\ LET pos == positions[idx]
       IN  IF pos.symbol \notin DOMAIN market_map
           THEN /\ remaining_positions' = Append(remaining_positions, pos)
                /\ idx' = idx + 1
                /\ UNCHANGED <<trade_log, pc, outcome, portfolio, market_map, actions,
                               positions, entry_price>>
           ELSE IF IsNone(pos.exit_plan)
           THEN \* exit_plan.get on None raises AttributeError
                /\ Exit("error")
                /\ UNCHANGED trade_log
           ELSE LET verdict == ExitCheck(pos, market_map[pos.symbol], entry_price)
                IN  CASE verdict.kind = "error" ->
                            /\ Exit("error")
                            /\ UNCHANGED trade_log
                      [] verdict.kind = "exit" ->
                            LET rec == CloseRecord(pos, verdict.price, verdict.reason)
                            IN  /\ portfolio' = [portfolio EXCEPT !.cash = @ + NetReturn(rec)]
                                /\ entry_price' = Bound(pos.entry_price)
                                /\ trade_log' = Append(trade_log, rec)
                                /\ idx' = idx + 1
                                /\ UNCHANGED <<pc, outcome, market_map, actions, positions,
                                               remaining_positions>>
                      [] verdict.kind = "none" ->
                            /\ remaining_positions' = Append(remaining_positions, pos)
                            /\ idx' = idx + 1
                            /\ UNCHANGED <<trade_log, pc, outcome, portfolio, market_map,
                                           actions, positions, entry_price>>

\* lines 271-275: the loop is over, the actions come next
EndTpSl ==
    /\ UNCHANGED research
    /\ UNCHANGED orchestration
    /\ pc = "tpsl"
    /\ idx > Len(positions)
    /\ portfolio' = [portfolio EXCEPT !.positions = remaining_positions]
    /\ positions' = remaining_positions
    /\ idx' = 1
    /\ pc' = "actions"
    /\ UNCHANGED <<files, warnings, cycle, outcome, started, market_map, actions,
                   remaining_positions, entry_price>>

\* an open that does not negate the quantity of a short
OpenPosition_Unsigned(act, current_price) ==
    LET leverage == LeverageOf(act)
        size_usd == act.position_size_usd
        notional == size_usd * leverage
        fee == Fee(notional)
        side == IF act.action = "open_long" THEN "long" ELSE "short"
        qty == notional \div current_price
    IN  [symbol |-> act.symbol, side |-> side,
         quantity |-> qty,
         entry_price |-> current_price, leverage |-> leverage, margin |-> size_usd,
         notional |-> notional, current_price |-> current_price,
         unrealized_pnl |-> -fee, exit_plan |-> act.exit_plan]

\* lines 305-334: the position an accepted open action creates
OpenPosition(act, current_price) ==
    LET leverage == LeverageOf(act)
        size_usd == act.position_size_usd
        notional == size_usd * leverage
        fee == Fee(notional)
        side == IF act.action = "open_long" THEN "long" ELSE "short"
        qty == notional \div current_price
    IN  [symbol |-> act.symbol, side |-> side,
         quantity |-> IF side = "short" THEN -qty ELSE qty,
         entry_price |-> current_price, leverage |-> leverage, margin |-> size_usd,
         notional |-> notional, current_price |-> current_price,
         unrealized_pnl |-> -fee, exit_plan |-> act.exit_plan]

\* an open that charges the margin but not the entry fee
OpenCost_NoFee(act) == act.position_size_usd

\* cost = size_usd + fee
OpenCost(act) == act.position_size_usd + Fee(act.position_size_usd * LeverageOf(act))

\* an executor that never refuses an open for lack of cash
InsufficientCash_Never(act, cash) == FALSE

\* line 309: if cost > portfolio["cash"]
InsufficientCash(act, cash) == OpenCost(act) > cash

\* lines 337-349: the trade record of an open
OpenRecord(act, pos) ==
    [symbol |-> pos.symbol, action |-> act.action, side |-> pos.side, qty |-> pos.quantity,
     price |-> pos.entry_price, notional |-> pos.notional, margin |-> pos.margin,
     fee |-> Fee(pos.notional), realized_pnl |-> -Fee(pos.notional), reason |-> ""]

\* a close_position that logs only the first position it closes
CloseRecords_First(poss, symbol, current_price) ==
    LET hit == SelectSeq(poss, LAMBDA q : q.symbol = symbol)
    IN  [i \in 1..(IF hit = <<>> THEN 0 ELSE 1) |-> CloseRecord(hit[i], current_price, "")]

\* lines 359-393: the records of the positions close_position closes, in order
CloseRecords(poss, symbol, current_price) ==
    LET hit == SelectSeq(poss, LAMBDA q : q.symbol = symbol)
    IN  [i \in 1..Len(hit) |-> CloseRecord(hit[i], current_price, "")]

\* an adjust_sl that also halves the position
AdjustPlan_Resize(pos, plan) ==
    [pos EXCEPT !.exit_plan = DictUpdate(@, IF IsNone(plan) THEN NoPlan ELSE plan),
                !.quantity = @ \div 2]

\* line 404: pos.setdefault("exit_plan", {}).update(exit_plan or {})
AdjustPlan(pos, plan) ==
    [pos EXCEPT !.exit_plan = DictUpdate(@, IF IsNone(plan) THEN NoPlan ELSE plan)]

\* lines 280-412: one turn of the action loop
ApplyAction ==
    /\ UNCHANGED research
    /\ UNCHANGED orchestration
    /\ pc = "actions"
    /\ idx <= Len(actions)
    /\ UNCHANGED <<portfolio_file, decision_log, payload, warnings, cycle, started>>
    /\ LET act == actions[idx]
           priced == act.symbol \in DOMAIN market_map
           current_price == market_map[act.symbol].close
           Skip == /\ idx' = idx + 1
                   /\ UNCHANGED <<trade_log, pc, outcome, portfolio, market_map, actions,
                                  positions, remaining_positions, entry_price>>
       IN  IF act.symbol = "" \/ act.action = "" \/ ~priced THEN Skip
           ELSE CASE IsOpen(act) ->
                       IF act.position_size_usd <= 0 \/ InsufficientCash(act, portfolio.cash)
                       THEN Skip
                       ELSE LET pos == OpenPosition(act, current_price)
                            IN  /\ portfolio' = [portfolio EXCEPT
                                                   !.cash = @ - OpenCost(act),
                                                   !.positions = Append(positions, pos)]
                                /\ positions' = Append(positions, pos)
                                /\ trade_log' = Append(trade_log, OpenRecord(act, pos))
                                /\ idx' = idx + 1
                                /\ UNCHANGED <<pc, outcome, market_map, actions,
                                               remaining_positions, entry_price>>
                  [] act.action = "close_position" ->
                       LET recs == CloseRecords(positions, act.symbol, current_price)
                           rest == SelectSeq(positions, LAMBDA q : q.symbol # act.symbol)
                       IN  /\ portfolio' = [portfolio EXCEPT
                                              !.cash = @ + SumSeq([i \in 1..Len(recs) |->
                                                                     NetReturn(recs[i])])]
                           /\ trade_log' = trade_log \o recs
                           /\ positions' = rest
                           /\ remaining_positions' = rest
                           /\ entry_price' = IF recs = <<>> THEN entry_price
                                             ELSE Bound(positions[
                                                    CHOOSE i \in 1..Len(positions) :
                                                      /\ positions[i].symbol = act.symbol
                                                      /\ \A j \in (i+1)..Len(positions) :
                                                            positions[j].symbol # act.symbol
                                                  ].entry_price)
                           /\ idx' = idx + 1
                           /\ UNCHANGED <<pc, outcome, market_map, actions>>
                  [] act.action = "adjust_sl" ->
                       IF \E i \in 1..Len(positions) :
                            positions[i].symbol = act.symbol /\ IsNone(positions[i].exit_plan)
                       THEN \* update on None raises AttributeError
                            /\ Exit("error")
                            /\ UNCHANGED trade_log
                       ELSE /\ positions' = [i \in 1..Len(positions) |->
                                               IF positions[i].symbol = act.symbol
                                               THEN AdjustPlan(positions[i], act.exit_plan)
                                               ELSE positions[i]]
                            /\ idx' = idx + 1
                            /\ UNCHANGED <<trade_log, pc, outcome, portfolio, market_map,
                                           actions, remaining_positions, entry_price>>
                  [] OTHER -> Skip

\* lines 414-434: mark to market and save
Finalize ==
    /\ UNCHANGED research
    /\ UNCHANGED orchestration
    /\ pc = "actions"
    /\ idx > Len(actions)
    /\ portfolio_file' =
          Json(compute_nav([portfolio EXCEPT !.positions = positions], market_map))
    /\ Exit("saved")
    /\ UNCHANGED <<trade_log, decision_log, payload, warnings, cycle, started>>

Next ==
    \/ \E p \in Payloads : Inference(p)
    \/ RunExecutor
    \/ \E d \in Batches : RunAgent(d)
    \/ RunAgentFails
    \/ LoadCycle
    \/ CheckPosition
    \/ EndTpSl
    \/ ApplyAction
    \/ Finalize

Spec == Init /\ [][Next]_vars

\* ------------------------------------------------------------------------
\* compute_nav on its own: the portfolios one batch of opens leaves in
\* memory, marked to market against any sequence of market maps (as the
\* end of the cycle and the start of every later cycle do)
\* ------------------------------------------------------------------------
\* the market maps a payload can give
MarketMaps == {get_market_data_map(c) : c \in CoinMaps}

\* lines 280-335 for a batch of opens: the portfolio after the action loop
RECURSIVE OpenAll(_, _, _)
OpenAll(p, acts, m) ==
    IF acts = <<>> THEN p
    ELSE LET act == Head(acts)
         IN  IF /\ act.symbol \in DOMAIN m
                /\ act.position_size_usd > 0
                /\ ~InsufficientCash(act, p.cash)
             THEN OpenAll([p EXCEPT
                             !.cash = @ - OpenCost(act),
                             !.positions = Append(@, OpenPosition(act, m[act.symbol].close))],
                          Tail(acts), m)
             ELSE OpenAll(p, Tail(acts), m)

OpenBatches == UNION {[1..n -> {a \in ActionSet : IsOpen(a)}] : n \in 0..MaxPositions}

InitNav ==
    /\ portfolio \in {OpenAll(DefaultPortfolio, acts, m) : acts \in OpenBatches, m \in MarketMaps}
    /\ pc = "unmarked"
    /\ portfolio_file = Missing
    /\ trade_log = <<>>
    /\ decision_log = Missing
    /\ payload = Missing
    /\ warnings = {}
    /\ cycle = 0
    /\ outcome = "none"
    /\ started = [portfolio_file |-> Missing, trade_log |-> <<>>]
    /\ market_map = <<>>
    /\ actions = <<>>
    /\ positions = portfolio.positions
    /\ remaining_positions = <<>>
    /\ idx = 0
    /\ entry_price = Unbound
    /\ NoResearch
    /\ NoScheduler

\* portfolio = compute_nav(portfolio, market_map), lines 177 and 416
MarkToMarket(m) ==
    /\ UNCHANGED research
    /\ UNCHANGED orchestration
    /\ pc \in {"unmarked", "marked"}
    /\ portfolio' = compute_nav(portfolio, m)
    /\ positions' = portfolio'.positions
    /\ market_map' = m
    /\ pc' = "marked"
    /\ UNCHANGED <<files, warnings, cycle, outcome, started, actions, remaining_positions,
                   idx, entry_price>>

NextNav == \E m \in MarketMaps : MarkToMarket(m)

SpecNav == InitNav /\ [][NextNav]_vars

\* ------------------------------------------------------------------------
\* The trading cycle on a decision log that earlier cycles have filled
\* ------------------------------------------------------------------------
\* a log of n records left by earlier agent runs, the newest without actions
OldLog(n) ==
    [kind |-> "json",
     records |-> [k \in 1..n |->
                     IF k = 1 THEN [actions |-> <<>>, analysis_summary |-> "analysis",
                                    timestamp |-> 0]
                     ELSE [timestamp |-> 1 - k]]]

InitAgent ==
    /\ portfolio_file = Missing
    /\ trade_log = <<>>
    /\ decision_log = OldLog(MaxHistory - 1)
    /\ payload = Missing
    /\ warnings = {}
    /\ pc = "idle"
    /\ cycle = 0
    /\ outcome = "none"
    /\ started = [portfolio_file |-> portfolio_file, trade_log |-> <<>>]
    /\ NoLocals
    /\ NoScheduler
    /\ NoResearch

SpecAgent == InitAgent /\ [][Next]_vars

\* ------------------------------------------------------------------------
\* The position sizers of the backtests.  ATR and price are whole points,
\* missing (None) or not-a-number (an empty cell of the signal file); the
\* fractions they return are in hundredths (40 = 0.40).
\* ------------------------------------------------------------------------
None == [kind |-> "None"]
NaN == [kind |-> "nan"]
Num(x) == [kind |-> "num", v |-> x]

\* atr_pct <= 0.015 and atr_pct <= 0.03, in thousandths
LowVol == 15
MidVol == 30
\* atr_pct < 2.0 and atr_pct < 4.0 (percent), in thousandths
LowVolPct == 20
MidVolPct == 40
\* the fraction 1.0
Full == 100

\* price <= 0: false for not-a-number
NonPositive(x) == x.kind = "num" /\ x.v <= 0

\* float(atr) / float(price) <= bound / 1000, for price > 0; false when
\* the quotient is not-a-number
AtrPctLE(atr, price, bound) ==
    /\ atr.kind = "num"
    /\ price.kind = "num"
    /\ 1000 * atr.v <= bound * price.v

\* a sizer whose volatility buckets are the wrong way round
calc_vol_bucket_Reversed(atr, price) ==
    IF atr = None \/ price = None \/ NonPositive(price) THEN <<20, 15>>
    ELSE IF AtrPctLE(atr, price, LowVol) THEN <<15, 10>>
    ELSE IF AtrPctLE(atr, price, MidVol) THEN <<25, 20>>
    ELSE <<40, 30>>

\* regime_pullback_add_vol_backtest.py, calc_vol_bucket: (entry_pos, add_pos)
calc_vol_bucket(atr, price) ==
    IF atr = None \/ price = None \/ NonPositive(price) THEN <<20, 15>>
    ELSE IF AtrPctLE(atr, price, LowVol) THEN <<40, 30>>
    ELSE IF AtrPctLE(atr, price, MidVol) THEN <<25, 20>>
    ELSE <<15, 10>>

\* archive/regime_official_v1_backtest.py, calc_pos_bucket: (base_pos, add_pos)
calc_pos_bucket(atr, price) ==
    IF atr = None \/ price = None \/ NonPositive(price) THEN <<30, 15>>
    ELSE IF AtrPctLE(atr, price, LowVol) THEN <<40, 20>>
    ELSE IF AtrPctLE(atr, price, MidVol) THEN <<30, 15>>
    ELSE <<20, 10>>

\* archive/custom_signal_v2_backtest.py, calc_position_size: one fraction
calc_position_size(atr_pct) ==
    IF atr_pct = None \/ atr_pct = NaN THEN <<70>>
    ELSE IF atr_pct.v < LowVolPct THEN <<Full>>
    ELSE IF atr_pct.v < MidVolPct THEN <<70>>
    ELSE <<50>>

\* `if atr and price`: None and 0 are false, not-a-number is true
Falsy(x) == x = None \/ (x.kind = "num" /\ x.v = 0)

\* archive/custom_signal_v2_backtest.py line 293:
\* atr_pct = (atr / price * 100) if atr and price else None, in thousandths
AtrPctOf(atr, price) ==
    IF Falsy(atr) \/ Falsy(price) THEN None
    ELSE IF atr = NaN \/ price = NaN THEN NaN
    ELSE IF price.v > 0 THEN Num((1000 * atr.v) \div price.v)
    ELSE Num(-((1000 * atr.v) \div (-price.v)))

\* the values a cell of atr_14 and of close can hold
AtrInputs == {None, NaN} \cup {Num(a) : a \in {-5, 0, 15, 16, 30, 45}}
PriceInputs == {None, NaN} \cup {Num(p) : p \in {-1000, 0, 1000}}

InitSizer ==
    /\ NoResearch
    /\ pc = "sizing"
    /\ portfolio_file = Missing
    /\ trade_log = <<>>
    /\ decision_log = Missing
    /\ payload = Missing
    /\ warnings = {}
    /\ cycle = 0
    /\ outcome = "none"
    /\ started = [portfolio_file |-> Missing, trade_log |-> <<>>]
    /\ NoLocals
    /\ NoScheduler

NotTrading ==
    UNCHANGED <<files, warnings, pc, cycle, outcome, started, locals>>

NotReporting ==
    UNCHANGED <<returns, trades_pnl, metrics, backtest>>

\* line 112: base_pos_size, add_pos_size = calc_vol_bucket(atr, price)
CallVolBucket(atr, price) ==
    /\ Len(calls) < MaxCalls
    /\ calls' = Append(calls, [fn |-> "calc_vol_bucket", atr |-> atr, price |-> price,
                               result |-> calc_vol_bucket(atr, price)])
    /\ NotReporting
    /\ NotTrading
    /\ UNCHANGED orchestration

\* archive/regime_official_v1_backtest.py line 124
CallPosBucket(atr, price) ==
    /\ Len(calls) < MaxCalls
    /\ calls' = Append(calls, [fn |-> "calc_pos_bucket", atr |-> atr, price |-> price,
                               result |-> calc_pos_bucket(atr, price)])
    /\ NotReporting
    /\ NotTrading
    /\ UNCHANGED orchestration

\* archive/custom_signal_v2_backtest.py lines 293-294
CallPositionSize(atr, price) ==
    /\ Len(calls) < MaxCalls
    /\ calls' = Append(calls, [fn |-> "calc_position_size", atr |-> atr, price |-> price,
                               result |-> calc_position_size(AtrPctOf(atr, price))])
    /\ NotReporting
    /\ NotTrading
    /\ UNCHANGED orchestration

NextSizer ==
    \/ \E a \in AtrInputs, p \in PriceInputs : CallVolBucket(a, p)
    \/ \E a \in AtrInputs, p \in PriceInputs : CallPosBucket(a, p)
    \/ \E a \in AtrInputs, p \in PriceInputs : CallPositionSize(a, p)

SpecSizer == InitSizer /\ [][NextSizer]_vars

\* ------------------------------------------------------------------------
\* Performance metrics: archive/build_portfolio.py portfolio_metrics and
\* the report at the end of run_backtest.  Returns are in tenths (1 = +10%).
\* A ratio whose value needs a square root is kept as a number with the
\* sign of its numerator; not-a-number is NaN.
\* ------------------------------------------------------------------------
RetScale == 10
RetValues == {-2, -1, 0, 1}
ReturnSeries == UNION {[1..n -> RetValues] : n \in 1..MaxBars}
TradeLists == UNION {[1..n -> {-1, 0, 1}] : n \in 0..MaxTrades}

Sign(x) == IF x > 0 THEN 1 ELSE IF x < 0 THEN -1 ELSE 0

RECURSIVE Pow(_, _)
Pow(b, e) == IF e = 0 THEN 1 ELSE b * Pow(b, e - 1)

\* (1 + ret).cumprod() at bar k, times RetScale^k
RECURSIVE Growth(_, _)
Growth(rets, k) == IF k = 0 THEN 1 ELSE (RetScale + rets[k]) * Growth(rets, k - 1)

\* equity at bar k, times RetScale^Len(rets)
Equity(rets, k) == Growth(rets, k) * Pow(RetScale, Len(rets) - k)

\* equity.cummax() at bar k
RollMax(rets, k) ==
    CHOOSE m \in {Equity(rets, j) : j \in 1..k} : \A j \in 1..k : Equity(rets, j) <= m

\* dd = equity / roll_max - 1 at bar k, as a fraction
Drawdown(rets, k) ==
    [num |-> Equity(rets, k) - RollMax(rets, k), den |-> RollMax(rets, k)]

FracLE(a, b) == a.num * b.den <= b.num * a.den

\* dd.min()
MaxDrawdown(rets) ==
    LET k == CHOOSE i \in 1..Len(rets) :
                \A j \in 1..Len(rets) : FracLE(Drawdown(rets, i), Drawdown(rets, j))
    IN  Drawdown(rets, k)

\* std() > 0.  The sample deviation of fewer than two values is
\* not-a-number, of equal values zero; for equal nonzero values the
\* floating-point mean may round, leaving a tiny positive deviation or
\* zero (rounded).
StdPositive(xs, rounded) ==
    /\ Len(xs) >= 2
    /\ \/ \E i, j \in 1..Len(xs) : xs[i] # xs[j]
       \/ xs[1] # 0 /\ rounded

portfolio_metrics(portfolio_ret, rounded, rounded_down) ==
    LET max_dd == MaxDrawdown(portfolio_ret)
        mean_ret == Num(Sign(SumSeq(portfolio_ret)))
        downside_ret == SelectSeq(portfolio_ret, LAMBDA r : r < 0)
    IN  [fn |-> "portfolio_metrics",
         max_dd |-> max_dd,
         sharpe |-> IF StdPositive(portfolio_ret, rounded) THEN mean_ret ELSE NaN,
         sortino |-> IF Len(downside_ret) > 0 /\ StdPositive(downside_ret, rounded_down)
                     THEN mean_ret ELSE NaN,
         calmar |-> IF max_dd.num < 0 THEN mean_ret ELSE NaN]

\* run_backtest lines 196-200: win_rate, in percent
WinRate(pnl) ==
    IF pnl # <<>>
    THEN Num((100 * Len(SelectSeq(pnl, LAMBDA x : x > 0))) \div Len(pnl))
    ELSE Num(0)

InitMetrics ==
    /\ calls = <<>>
    /\ returns \in ReturnSeries
    /\ trades_pnl \in TradeLists
    /\ metrics = Pending
    /\ backtest = NotRunning
    /\ pc = "report"
    /\ portfolio_file = Missing
    /\ trade_log = <<>>
    /\ decision_log = Missing
    /\ payload = Missing
    /\ warnings = {}
    /\ cycle = 0
    /\ outcome = "none"
    /\ started = [portfolio_file |-> Missing, trade_log |-> <<>>]
    /\ NoLocals
    /\ NoScheduler

\* metrics = portfolio_metrics(portfolio_ret)
PortfolioMetrics(rounded, rounded_down) ==
    /\ metrics = Pending
    /\ metrics' = portfolio_metrics(returns, rounded, rounded_down)
    /\ UNCHANGED <<calls, returns, trades_pnl, backtest>>
    /\ NotTrading
    /\ UNCHANGED orchestration

\* run_backtest lines 190-200: max_drawdown and win_rate
BacktestReport ==
    /\ metrics = Pending
    /\ metrics' = [fn |-> "run_backtest",
                   max_drawdown |-> MaxDrawdown(returns),
                   win_rate |-> WinRate(trades_pnl)]
    /\ UNCHANGED <<calls, returns, trades_pnl, backtest>>
    /\ NotTrading
    /\ UNCHANGED orchestration

NextMetrics ==
    \/ \E rounded, rounded_down \in BOOLEAN : PortfolioMetrics(rounded, rounded_down)
    \/ BacktestReport

SpecMetrics == InitMetrics /\ [][NextMetrics]_vars

\* ------------------------------------------------------------------------
\* run_backtest of the bar-sequential backtests: the loop over the bars of
\* ETHUSDT_4h_signals.csv, one block of the loop body per step.
\*   position fractions  1 unit = 0.001      (1000 = fully invested)
\*   trend_score         1 unit = 0.1
\*   price_position_20   1 unit = 0.01
\* entry_price is an exact fraction n/d.  The equity curve is not modelled:
\* a trades_pnl entry records the bar at which the trade was booked, and
\* entry_equity the bar at which it was set.
\* ------------------------------------------------------------------------
Scripts == {"regime_pullback_add_vol", "regime_official_v1", "regime_tp",
            "custom_signal_v2", "flowchart"}
TrendScripts == {"regime_pullback_add_vol", "regime_official_v1", "regime_tp"}

Min(a, b) == IF a <= b THEN a ELSE b
Max(a, b) == IF a >= b THEN a ELSE b

RECURSIVE GCD(_, _)
GCD(a, b) == IF b = 0 THEN a ELSE GCD(b, a % b)

\* the fraction n/d in lowest terms, n >= 0 and d > 0
Rat(n, d) == [kind |-> "num", n |-> n \div GCD(n, d), d |-> d \div GCD(n, d)]
Str(s) == [kind |-> "str", v |-> s]
\* strategy_equity as it stood in bar i
EquityAt(i) == [kind |-> "num", bar |-> i]
\* a sizer's fraction (hundredths) as a position fraction
Thousandths(f) == 10 * f

\* comparisons of a cell with a constant: false for not-a-number
Gt(x, n) == x.kind = "num" /\ x.v > n
Lt(x, n) == x.kind = "num" /\ x.v < n
Ge(x, n) == x.kind = "num" /\ x.v >= n
Le(x, n) == x.kind = "num" /\ x.v <= n

\* regime, trend_score and trend_label of a bar
BullTrend == [regime |-> "bull", trend_score |-> 6, trend_label |-> "up"]
RangeTrend == [regime |-> "range", trend_score |-> 4, trend_label |-> "up"]
BearTrend == [regime |-> "bear", trend_score |-> 2, trend_label |-> "down"]

\* one row of the signals file, with the conditions custom_signal_v2 derives
\* from the columns around it (lines 230-231, 263-265, 287-289) as two flags
Bar(close, high, low, rsi, price_pos, macd, atr, trend) ==
    [close |-> close, high |-> high, low |-> low, rsi_14 |-> rsi,
     price_position_20 |-> price_pos, macd_hist |-> macd, atr_14 |-> atr,
     regime |-> trend.regime, trend_score |-> trend.trend_score,
     trend_label |-> trend.trend_label,
     entry_signal |-> FALSE, exit_signal |-> FALSE]
Signalled(bar, entry, exit) ==
    [bar EXCEPT !.entry_signal = entry, !.exit_signal = exit]

\* rows of the trend-following scripts: a pullback in an uptrend, its
\* recovery, a pullback in a range, a slump through the stop, a bear bar,
\* the indicator warm-up, a row without ATR, and overbought rows
Pullback == Bar(100, 101, 99, Num(58), Num(40), Num(1), Num(1), BullTrend)
Recover == Bar(110, 111, 109, Num(62), Num(60), Num(2), Num(2), BullTrend)
RangeZone == Bar(100, 101, 99, Num(58), Num(40), Num(1), Num(1), RangeTrend)
Slump == Bar(90, 95, 90, Num(58), Num(40), Num(1), Num(1), BullTrend)
BearBar == Bar(95, 96, 94, Num(35), Num(20), Num(-1), Num(2), BearTrend)
Warmup == Bar(100, 101, 99, NaN, NaN, NaN, NaN, BullTrend)
Unsized == Bar(100, 101, 99, Num(58), Num(40), Num(1), None, BullTrend)
Heated(rsi) == Bar(120, 121, 119, Num(rsi), Num(80), Num(3), Num(2), BullTrend)
TrendRows == {Pullback, Recover, RangeZone, Slump, BearBar, Warmup, Unsized}
                 \cup {Heated(rsi) : rsi \in {76, 81, 86, 92}}

\* rows of flowchart_strategy_backtest.py: RSI rising and falling on either
\* side of 50, an overbought spike, an oversold drop, the warm-up
FlowRows ==
    {Bar(100, 101, 99, Num(52), Num(50), Num(1), Num(2), BullTrend),
     Bar(102, 103, 101, Num(55), Num(50), Num(1), Num(2), BullTrend),
     Bar(98, 99, 97, Num(45), Num(50), Num(-1), Num(2), BearTrend),
     Bar(96, 97, 95, Num(40), Num(50), Num(-1), Num(2), BearTrend),
     Bar(110, 111, 109, Num(75), Num(50), Num(1), Num(2), BullTrend),
     Bar(90, 91, 89, Num(25), Num(50), Num(-1), Num(2), BearTrend),
     Bar(100, 106, 94, Num(50), Num(50), Num(0), Num(2), RangeTrend),
     Warmup}

\* rows of custom_signal_v2_backtest.py: entry signals at three ATR levels
\* and without ATR, gains past 20% and 40%, a drop through the stop alone
\* and with a fresh entry signal, an exit signal alone and on a gain
Quiet(close, atr) == Bar(close, close + 1, close - 1, Num(50), Num(50), Num(0), atr, RangeTrend)
SignalRows ==
    {Signalled(Quiet(100, atr), TRUE, FALSE) : atr \in {Num(1), Num(3), Num(5), None}}
        \cup {Quiet(125, Num(1)), Quiet(145, Num(1)), Quiet(91, Num(1)),
              Signalled(Quiet(91, Num(1)), TRUE, FALSE),
              Signalled(Quiet(100, Num(1)), FALSE, TRUE),
              Signalled(Quiet(125, Num(1)), FALSE, TRUE)}

Rows(script) ==
    IF script \in TrendScripts THEN TrendRows
    ELSE IF script = "flowchart" THEN FlowRows
    ELSE SignalRows

NoRow == [close |-> 0]

\* the locals of run_backtest before the loop (pos is assigned at the top of
\* every bar)
Locals(script) ==
    [script |-> script, step |-> "row", i |-> 0, row |-> NoRow,
     pos |-> 0, prev_pos |-> 0,
     in_trade |-> FALSE, entry_equity |-> None, entry_price |-> None,
     entry_side |-> None, trades_pnl |-> <<>>,
     prev_rsi |-> None, prev_price_pos |-> None, prev_macd_hist |-> None,
     num_adds |-> 0, add_pos_for_trade |-> None, max_pos_for_trade |-> None,
     current_position_size |-> None,
     profit_taken_20 |-> FALSE, profit_taken_40 |-> FALSE, tp_stage |-> 0]

\* the order of the blocks of the loop body
FirstStep(script) == IF script = "custom_signal_v2" THEN "tp" ELSE "exit"
AfterEntry(script) ==
    IF script \in {"regime_pullback_add_vol", "regime_official_v1"} THEN "add"
    ELSE IF script = "regime_tp" THEN "tp"
    ELSE "update"
AfterTp(script) == IF script = "custom_signal_v2" THEN "exit" ELSE "update"

Uptrend(r) == r.regime = "bull" /\ r.trend_score > 5 /\ r.trend_label = "up"
BearLike(r) == r.regime = "bear" \/ r.trend_score < 3 \/ r.trend_label # "up"
Overbought(script, r) == Gt(r.rsi_14, IF script = "regime_tp" THEN 90 ELSE 80)

\* low_price <= entry_price - (halves / 2) * atr, false without an entry
\* price or an ATR and for an ATR that is not a number
HitStopLong(ep, atr, low, halves) ==
    /\ ep # None
    /\ atr.kind = "num"
    /\ 2 * low * ep.d <= 2 * ep.n - halves * atr.v * ep.d
\* high_price >= entry_price + 2.0 * atr
HitStopShort(ep, atr, high) ==
    /\ ep # None
    /\ atr.kind = "num"
    /\ high * ep.d >= ep.n + 2 * atr.v * ep.d

\* a full close that books the trade and forgets to end it
Closed_StillInTrade(b) ==
    IF b.in_trade THEN [b EXCEPT !.pos = 0, !.trades_pnl = Append(@, [bar |-> b.i])]
    ELSE [b EXCEPT !.pos = 0]

\* the full-close branch: pos = 0.0 and, if in_trade, one trades_pnl entry
\* and the reset of the trade's locals
Closed(b) ==
    LET flat == [b EXCEPT !.pos = 0]
        booked == [flat EXCEPT !.trades_pnl = Append(@, [bar |-> b.i]),
                               !.in_trade = FALSE,
                               !.entry_price = None,
                               !.entry_equity = None]
    IN  IF ~b.in_trade THEN flat
        ELSE IF b.script = "regime_official_v1"
            THEN [booked EXCEPT !.num_adds = 0, !.add_pos_for_trade = None,
                                !.max_pos_for_trade = None]
        ELSE IF b.script = "regime_tp" THEN [booked EXCEPT !.tp_stage = 0]
        ELSE IF b.script = "custom_signal_v2"
            THEN [booked EXCEPT !.current_position_size = None,
                                !.profit_taken_20 = FALSE,
                                !.profit_taken_40 = FALSE]
        ELSE IF b.script = "flowchart" THEN [booked EXCEPT !.entry_side = None]
        ELSE booked

\* the condition of the full close
ShouldExit(b, r) ==
    IF b.script \in TrendScripts
        THEN /\ b.prev_pos > 0
             /\ \/ BearLike(r)
                \/ Overbought(b.script, r)
                \/ HitStopLong(b.entry_price, r.atr_14, r.low, 4)
    ELSE IF b.script = "custom_signal_v2"
        THEN /\ b.prev_pos > 0
             /\ \/ HitStopLong(b.entry_price, r.atr_14, r.low, 5)
                \/ r.exit_signal
    ELSE /\ b.prev_pos # 0
         /\ \/ /\ b.entry_side = Str("long")
               /\ \/ Gt(r.rsi_14, 70)
                  \/ Lt(r.macd_hist, 0)
                  \/ HitStopLong(b.entry_price, r.atr_14, r.low, 4)
            \/ /\ b.entry_side = Str("short")
               /\ \/ Lt(r.rsi_14, 30)
                  \/ Gt(r.macd_hist, 0)
                  \/ HitStopShort(b.entry_price, r.atr_14, r.high)

\* the locals an entry sets in every script
Opened(b, r, pos) ==
    [b EXCEPT !.pos = pos, !.in_trade = TRUE,
              !.entry_price = Rat(r.close, 1), !.entry_equity = EquityAt(b.i)]

\* the entry block
Entered(b, r) ==
    IF b.pos # 0 THEN b
    ELSE IF b.script = "regime_pullback_add_vol" THEN
        IF Uptrend(r) /\ Lt(r.rsi_14, 70) /\ Gt(r.price_position_20, 30) /\ Gt(r.macd_hist, 0)
        THEN Opened(b, r, Min(Thousandths(calc_vol_bucket(r.atr_14, Num(r.close))[1]), 1000))
        ELSE b
    ELSE IF b.script = "regime_official_v1" THEN
        IF Uptrend(r) /\ Lt(r.rsi_14, 70) /\ Gt(r.price_position_20, 30) /\ Gt(r.macd_hist, 0)
        THEN LET bucket == calc_pos_bucket(r.atr_14, Num(r.close))
                 base_pos == Thousandths(bucket[1])
                 add_pos == Thousandths(bucket[2])
             IN  [Opened(b, r, base_pos) EXCEPT
                     !.num_adds = 0,
                     !.add_pos_for_trade = Num(add_pos),
                     !.max_pos_for_trade = Num(Min(1000, base_pos + 3 * add_pos))]
        ELSE b
    ELSE IF b.script = "regime_tp" THEN
        IF Uptrend(r) /\ Lt(r.rsi_14, 75) /\ Gt(r.price_position_20, 30) /\ Gt(r.macd_hist, 0)
        THEN [Opened(b, r, 1000) EXCEPT !.tp_stage = 0]
        ELSE b
    ELSE IF b.script = "custom_signal_v2" THEN
        IF r.entry_signal
        THEN LET position_size ==
                     Thousandths(calc_position_size(AtrPctOf(r.atr_14, Num(r.close)))[1])
             IN  [Opened(b, r, position_size) EXCEPT
                     !.current_position_size = Num(position_size),
                     !.profit_taken_20 = FALSE,
                     !.profit_taken_40 = FALSE]
        ELSE b
    ELSE IF /\ r.trend_score > 5
            /\ Gt(r.rsi_14, 50)
            /\ b.prev_rsi # None /\ b.prev_rsi.kind = "num" /\ Gt(r.rsi_14, b.prev_rsi.v)
            /\ Gt(r.macd_hist, 0)
        THEN [Opened(b, r, 1000) EXCEPT !.entry_side = Str("long")]
    ELSE IF /\ r.trend_score < 3
            /\ Lt(r.rsi_14, 50)
            /\ b.prev_rsi # None /\ b.prev_rsi.kind = "num" /\ Lt(r.rsi_14, b.prev_rsi.v)
            /\ Lt(r.macd_hist, 0)
        THEN [Opened(b, r, -1000) EXCEPT !.entry_side = Str("short")]
    ELSE b

\* an entry price that averages the two fills without their weights
Average_Unweighted(ep, pos, price, new_pos) ==
    Rat(ep.n + price * ep.d, 2 * ep.d)

\* (entry_price * pos + price * (new_pos - pos)) / new_pos
Average(ep, pos, price, new_pos) ==
    Rat(ep.n * pos + price * (new_pos - pos) * ep.d, ep.d * new_pos)

\* the scale-in: raise pos to new_pos and average the entry price
Added(b, r, new_pos) ==
    [b EXCEPT !.entry_price = IF @ # None THEN Average(@, b.pos, r.close, new_pos) ELSE @,
              !.pos = new_pos]

\* the scale-in block
ScaledIn(b, r) ==
    IF b.script = "regime_pullback_add_vol" THEN
        LET prev_in_pullback_zone ==
                /\ b.prev_rsi # None /\ b.prev_price_pos # None /\ b.prev_macd_hist # None
                /\ Ge(b.prev_rsi, 45) /\ Le(b.prev_rsi, 60)
                /\ Lt(b.prev_price_pos, 50)
                /\ Gt(b.prev_macd_hist, 0)
            recover ==
                /\ prev_in_pullback_zone
                /\ Gt(r.rsi_14, 55)
                /\ Gt(r.price_position_20, 50)
                /\ Ge(r.macd_hist, b.prev_macd_hist.v)
            add_pos == Thousandths(calc_vol_bucket(r.atr_14, Num(r.close))[2])
            new_pos == Min(b.pos + add_pos, 1000)
        IN  IF b.pos > 0 /\ b.pos < 1000 /\ Uptrend(r) /\ recover /\ new_pos > b.pos
            THEN [Added(b, r, new_pos) EXCEPT !.in_trade = TRUE]
            ELSE b
    ELSE
        LET in_pullback_zone ==
                /\ Ge(r.rsi_14, 40) /\ Le(r.rsi_14, 60)
                /\ Lt(r.price_position_20, 70)
                /\ Gt(r.macd_hist, 0)
            new_pos == Min(b.pos + b.add_pos_for_trade.v, b.max_pos_for_trade.v)
        IN  IF /\ b.pos > 0 /\ b.in_trade /\ Uptrend(r)
               /\ b.add_pos_for_trade # None /\ b.max_pos_for_trade # None
               /\ b.num_adds < 3
               /\ in_pullback_zone
               /\ b.pos < b.max_pos_for_trade.v
               /\ new_pos > b.pos
            THEN [Added(b, r, new_pos) EXCEPT !.num_adds = @ + 1]
            ELSE b

\* current_profit > tenths / 10, where current_profit is
\* price / entry_price - 1.0 if entry_price else 0.0
ProfitAbove(ep, price, tenths) ==
    /\ ep # None
    /\ ep.n # 0
    /\ 10 * price * ep.d > (10 + tenths) * ep.n

\* reduction = current_position_size * 0.3
Reduced(size) == size - (3 * size) \div 10

\* a take-profit block that forgets which thresholds have fired
TookProfit_Again(b, r) ==
    IF b.script = "custom_signal_v2" THEN
        IF b.prev_pos > 0 /\ ProfitAbove(b.entry_price, r.close, 2)
                          /\ b.current_position_size # None
        THEN [b EXCEPT !.current_position_size = Num(Reduced(@.v)),
                       !.pos = Reduced(b.current_position_size.v),
                       !.profit_taken_20 = TRUE]
        ELSE b
    ELSE IF b.pos > 0 /\ Gt(r.rsi_14, 75)
        THEN [b EXCEPT !.pos = Max((3 * @) \div 4, 100), !.tp_stage = 1]
    ELSE b

\* the partial take-profit block
TookProfit(b, r) ==
    IF b.script = "custom_signal_v2" THEN
        IF b.prev_pos <= 0 THEN b
        ELSE IF /\ ProfitAbove(b.entry_price, r.close, 2)
                /\ ~b.profit_taken_20
                /\ b.current_position_size # None
            THEN [b EXCEPT !.current_position_size = Num(Reduced(@.v)),
                           !.pos = Reduced(b.current_position_size.v),
                           !.profit_taken_20 = TRUE]
        ELSE IF /\ ProfitAbove(b.entry_price, r.close, 4)
                /\ ~b.profit_taken_40
                /\ b.current_position_size # None
            THEN [b EXCEPT !.current_position_size = Num(Reduced(@.v)),
                           !.pos = Reduced(b.current_position_size.v),
                           !.profit_taken_40 = TRUE]
        ELSE b
    ELSE
        LET first == IF Gt(r.rsi_14, 75) /\ b.tp_stage < 1
                     THEN [b EXCEPT !.pos = Max(Max((3 * @) \div 4, 750), 100),
                                    !.tp_stage = 1]
                     ELSE b
            second == IF Gt(r.rsi_14, 80) /\ first.tp_stage < 2
                      THEN [first EXCEPT !.pos = Max(400, 100), !.tp_stage = 2]
                      ELSE first
            third == IF Gt(r.rsi_14, 85) /\ second.tp_stage < 3
                     THEN [second EXCEPT !.pos = 100, !.tp_stage = 3]
                     ELSE second
        IN  IF b.pos > 0 /\ r.rsi_14 # None THEN third ELSE b

InitBacktest ==
    /\ backtest \in {Locals(script) : script \in Scripts}
    /\ calls = <<>>
    /\ returns = <<>>
    /\ trades_pnl = <<>>
    /\ metrics = Pending
    /\ pc = "backtest"
    /\ portfolio_file = Missing
    /\ trade_log = <<>>
    /\ decision_log = Missing
    /\ payload = Missing
    /\ warnings = {}
    /\ cycle = 0
    /\ outcome = "none"
    /\ started = [portfolio_file |-> Missing, trade_log |-> <<>>]
    /\ NoLocals
    /\ NoScheduler

OnlyBacktest ==
    /\ UNCHANGED <<calls, returns, trades_pnl, metrics>>
    /\ NotTrading
    /\ UNCHANGED orchestration

\* for i, row in df.iterrows(): the row's cells and pos = prev_pos
ReadRow(r) ==
    /\ backtest.script # "none"
    /\ backtest.step = "row"
    /\ backtest.i < MaxRows
    /\ r \in Rows(backtest.script)
    /\ backtest' = [backtest EXCEPT !.row = r, !.pos = backtest.prev_pos,
                                    !.step = FirstStep(backtest.script)]
    /\ OnlyBacktest

ExitBlock ==
    /\ backtest.script # "none"
    /\ backtest.step = "exit"
    /\ backtest' = [(IF ShouldExit(backtest, backtest.row) THEN Closed(backtest) ELSE backtest)
                       EXCEPT !.step = "entry"]
    /\ OnlyBacktest

EntryBlock ==
    /\ backtest.script # "none"
    /\ backtest.step = "entry"
    /\ backtest' = [Entered(backtest, backtest.row)
                       EXCEPT !.step = AfterEntry(backtest.script)]
    /\ OnlyBacktest

ScaleInBlock ==
    /\ backtest.script # "none"
    /\ backtest.step = "add"
    /\ backtest' = [ScaledIn(backtest, backtest.row) EXCEPT !.step = "update"]
    /\ OnlyBacktest

TakeProfitBlock ==
    /\ backtest.script # "none"
    /\ backtest.step = "tp"
    /\ backtest' = [TookProfit(backtest, backtest.row)
                       EXCEPT !.step = AfterTp(backtest.script)]
    /\ OnlyBacktest

\* the end of the loop body: prev_pos = pos and the previous bar's cells
EndBar ==
    /\ backtest.script # "none"
    /\ backtest.step = "update"
    /\ backtest' =
          LET b == [backtest EXCEPT !.prev_pos = backtest.pos, !.i = @ + 1,
                                    !.row = NoRow, !.step = "row"]
              r == backtest.row
          IN  IF b.script = "regime_pullback_add_vol"
                  THEN [b EXCEPT !.prev_rsi = r.rsi_14,
                                 !.prev_price_pos = r.price_position_20,
                                 !.prev_macd_hist = r.macd_hist]
              ELSE IF b.script = "flowchart" THEN [b EXCEPT !.prev_rsi = r.rsi_14]
              ELSE b
    /\ OnlyBacktest

\* after the loop: if in_trade and entry_equity is not None, one more entry
FinalTrade ==
    /\ backtest.script # "none"
    /\ backtest.step = "row"
    /\ backtest' =
          [(IF backtest.in_trade /\ backtest.entry_equity # None
            THEN [backtest EXCEPT !.trades_pnl = Append(@, [bar |-> backtest.i])]
            ELSE backtest)
              EXCEPT !.step = "done"]
    /\ OnlyBacktest

NextBacktest ==
    \/ \E r \in TrendRows \cup FlowRows \cup SignalRows : ReadRow(r)
    \/ ExitBlock
    \/ EntryBlock
    \/ ScaleInBlock
    \/ TakeProfitBlock
    \/ EndBar
    \/ FinalTrade

SpecBacktest == InitBacktest /\ [][NextBacktest]_vars

\* ------------------------------------------------------------------------
\* scheduler.py (main, run_trading_cycle) and run_daily_cycle.py (main,
\* run_script): the scheduler process and the cycle processes it starts
\* ------------------------------------------------------------------------
\* the scripts of run_daily_cycle.main in the order of its calls
Pipeline == <<"fetch_okx_data.py", "generate_multi_coin_signals.py",
              "prepare_multi_coin_qlib.py", "dump_bin.py", "inference_qlib_model.py",
              "fetch_onchain_and_news.py", "DeepSeek_Agent.py", "mock_trade_executor.py">>
\* the pc of a cycle process that has returned from main
Exited == Len(Pipeline) + 1

\* a cycle process at the top of main: pc is the index of the next script,
\* running whether that script's subprocess is running, results what
\* trading_cycle.log tells of the scripts so far
NewChild == [pc |-> 1, running |-> FALSE, results |-> <<>>]

InitScheduler ==
    /\ scheduler = [at |-> "sleep", due |-> 0, pending |-> 0]
    /\ children = <<>>
    /\ NoResearch
    /\ pc = "scheduler"
    /\ portfolio_file = Missing
    /\ trade_log = <<>>
    /\ decision_log = Missing
    /\ payload = Missing
    /\ warnings = {}
    /\ cycle = 0
    /\ outcome = "none"
    /\ started = [portfolio_file |-> Missing, trade_log |-> <<>>]
    /\ portfolio = DefaultPortfolio
    /\ market_map = <<>>
    /\ actions = <<>>
    /\ positions = <<>>
    /\ remaining_positions = <<>>
    /\ idx = 0
    /\ entry_price = Unbound

OnlyOrchestration ==
    /\ UNCHANGED research
    /\ NotTrading

\* one of the times of day of main's schedule comes, whatever the scheduler
\* is doing
TimeComes ==
    /\ scheduler.at # "none"
    /\ scheduler.due + scheduler.pending + Len(children) < MaxRuns
    /\ scheduler' = [scheduler EXCEPT !.due = @ + 1]
    /\ UNCHANGED children
    /\ OnlyOrchestration

\* schedule.run_pending() after time.sleep(60): the jobs that are due are
\* run one after the other
RunPending ==
    /\ scheduler.at = "sleep"
    /\ scheduler.due > 0
    /\ scheduler' = [scheduler EXCEPT !.at = "job", !.pending = scheduler.due, !.due = 0]
    /\ UNCHANGED children
    /\ OnlyOrchestration

\* run_trading_cycle, line 21: subprocess.run starts run_daily_cycle.py
StartCycle ==
    /\ scheduler.at = "job"
    /\ scheduler.pending > 0
    /\ children' = Append(children, NewChild)
    /\ scheduler' = [scheduler EXCEPT !.at = "subprocess"]
    /\ OnlyOrchestration

\* subprocess.run raises before a process exists; line 51 catches it and
\* run_trading_cycle returns
StartCycleFails ==
    /\ scheduler.at = "job"
    /\ scheduler.pending > 0
    /\ scheduler' = [scheduler EXCEPT !.pending = @ - 1,
                                      !.at = IF scheduler.pending > 1 THEN "job" ELSE "sleep"]
    /\ UNCHANGED children
    /\ OnlyOrchestration

\* a subprocess.run that returns while its process is still running
SubprocessReturns_NoWait ==
    /\ scheduler.at = "subprocess"
    /\ scheduler' = [scheduler EXCEPT !.at = "sync"]
    /\ UNCHANGED children
    /\ OnlyOrchestration

\* subprocess.run returns once the process it started has exited
SubprocessReturns ==
    /\ scheduler.at = "subprocess"
    /\ children[Len(children)].pc = Exited
    /\ scheduler' = [scheduler EXCEPT !.at = "sync"]
    /\ UNCHANGED children
    /\ OnlyOrchestration

\* lines 31-46: the copies to frontpages/public/data
SyncFiles ==
    /\ scheduler.at = "sync"
    /\ scheduler' = [scheduler EXCEPT !.at = "push"]
    /\ UNCHANGED children
    /\ OnlyOrchestration

\* line 49: push_to_github returns (it catches what it raises), and with it
\* run_trading_cycle
PushToGithub ==
    /\ scheduler.at = "push"
    /\ scheduler' = [scheduler EXCEPT !.pending = @ - 1,
                                      !.at = IF scheduler.pending > 1 THEN "job" ELSE "sleep"]
    /\ UNCHANGED children
    /\ OnlyOrchestration

\* run_script: subprocess.run starts the next script of the cycle process id
StartScript(id) ==
    /\ id \in 1..Len(children)
    /\ children[id].pc # Exited
    /\ ~children[id].running
    /\ children' = [children EXCEPT ![id].running = TRUE]
    /\ UNCHANGED scheduler
    /\ OnlyOrchestration

\* lines 88-91: dump_bin.py is not there, main returns
DumpBinMissing(id) ==
    /\ id \in 1..Len(children)
    /\ children[id].pc # Exited
    /\ Pipeline[children[id].pc] = "dump_bin.py"
    /\ ~children[id].running
    /\ children' = [children EXCEPT
                       ![id].results = Append(@, [script |-> "dump_bin.py", result |-> "missing"]),
                       ![id].pc = Exited]
    /\ UNCHANGED scheduler
    /\ OnlyOrchestration

\* a main that goes on to the next script whatever the last one returned
AfterScript_KeepGoing(script, ok, at) == at + 1

\* where main goes after a script: on to the next one if it succeeded or
\* was the news fetch, to its return otherwise and after the last script
AfterScript(script, ok, at) ==
    IF ok \/ script = "fetch_onchain_and_news.py" THEN at + 1 ELSE Exited

\* the running script of the cycle process id ends, with return code 0 (ok)
\* or not, or run_script's subprocess.run raises
FinishScript(id, ok) ==
    /\ id \in 1..Len(children)
    /\ children[id].running
    /\ LET script == Pipeline[children[id].pc]
       IN  children' = [children EXCEPT
               ![id].results = Append(@, [script |-> script,
                                          result |-> IF ok THEN "ok" ELSE "failed"]),
               ![id].running = FALSE,
               ![id].pc = AfterScript(script, ok, @)]
    /\ UNCHANGED scheduler
    /\ OnlyOrchestration

NextScheduler ==
    \/ TimeComes
    \/ RunPending
    \/ StartCycle
    \/ StartCycleFails
    \/ SubprocessReturns
    \/ SyncFiles
    \/ PushToGithub
    \/ \E id \in 1..MaxRuns : StartScript(id)
    \/ \E id \in 1..MaxRuns : DumpBinMissing(id)
    \/ \E id \in 1..MaxRuns, ok \in BOOLEAN : FinishScript(id, ok)

SpecScheduler == InitScheduler /\ [][NextScheduler]_vars

\* The fixed-point arithmetic loses nothing: every recorded fee is exactly
\* notional * FEE_RATE and every quantity exactly notional / price.
ExactArithmetic ==
    \A i \in 1..Len(trade_log) :
        /\ trade_log[i].fee * FeeDivisor = trade_log[i].notional
        /\ Abs(trade_log[i].qty) * trade_log[i].price = trade_log[i].notional

\* ------------------------------------------------------------------------
\* Properties
\* ------------------------------------------------------------------------
\* the portfolios compute_nav has just returned: the saved file, and the
\* portfolio of a running cycle before its first position is checked
Marked ==
    (IF portfolio_file.kind = "json" /\ outcome = "saved" THEN {portfolio_file.obj} ELSE {})
    \cup (IF (pc = "tpsl" /\ idx = 1) \/ pc = "marked" THEN {portfolio} ELSE {})

\* cash + sum(margin + stored unrealized_pnl)
StoredEquity(p) ==
    p.cash + SumSeq([i \in 1..Len(p.positions) |->
                       p.positions[i].margin + p.positions[i].unrealized_pnl])

\* cash + sum(margin + (current_price - entry_price) * quantity)
MarkedEquity(p) ==
    p.cash + SumSeq([i \in 1..Len(p.positions) |->
                       p.positions[i].margin
                       + (p.positions[i].current_price - p.positions[i].entry_price)
                         * p.positions[i].quantity])

Held ==
    IF pc \in {"tpsl", "actions", "unmarked", "marked"}
    THEN {[portfolio EXCEPT !.positions = positions]}
    ELSE IF pc = "idle" /\ portfolio_file.kind = "json" THEN {portfolio_file.obj}
    ELSE {}

SameBook(p, q) ==
    /\ p.cash = q.cash
    /\ Len(p.positions) = Len(q.positions)
    /\ \A i \in 1..Len(p.positions) :
          /\ p.positions[i].margin = q.positions[i].margin
          /\ p.positions[i].quantity = q.positions[i].quantity
          /\ p.positions[i].entry_price = q.positions[i].entry_price

\* C2: compute_nav twice with the same market map gives the same nav and
\* the same unrealized_pnl of every position as once, and no call changes
\* cash or any position's margin, quantity or entry_price.
C2_ComputeNavIdempotent ==
    \A p \in Held : \A m \in MarketMaps :
        LET once == compute_nav(p, m)
            twice == compute_nav(once, m)
        IN  /\ twice.nav = once.nav
            /\ \A i \in 1..Len(once.positions) :
                  twice.positions[i].unrealized_pnl = once.positions[i].unrealized_pnl
            /\ SameBook(p, once)
            /\ SameBook(once, twice)

\* C2 witness: a portfolio compute_nav has marked, with a position marked
\* away from its entry price, so that a nonzero unrealized_pnl was written.
C2_Witness ==
    \E p \in Marked : \E i \in 1..Len(p.positions) :
        /\ p.positions[i].current_price # p.positions[i].entry_price
        /\ p.positions[i].unrealized_pnl # 0

\* C3: the open-positions list holds at most one position per symbol.
C3_OnePositionPerSymbol ==
    \A p \in Held : \A i, j \in 1..Len(p.positions) :
        p.positions[i].symbol = p.positions[j].symbol => i = j

\* C4: no position of a batch whose open sizes sum to more than 50% of NAV
\* (the batch validate_decision reports for its total risk) is opened.
C4_OversizedBatchRejected ==
    [][(pc = "actions" /\ "total_risk" \in warnings) => Len(positions') <= Len(positions)]_vars

\* C5: the number of open positions never exceeds 3 after any cycle.
C5_AtMostThreePositions ==
    (pc = "idle" /\ portfolio_file.kind = "json")
        => Len(portfolio_file.obj.positions) <= MaxOpenPositions

\* C6: no open position ever has leverage above the maximum of 3.
C6_LeverageCapped ==
    \A p \in Held : \A i \in 1..Len(p.positions) : p.positions[i].leverage <= MaxLeverage

\* stop-loss and take-profit of pos are both breached by the bar
BothBreached(pos, bar) ==
    LET tp == Get(pos.exit_plan, "take_profit")
        sl == Get(pos.exit_plan, "stop_loss")
    IN  /\ tp # 0 /\ sl # 0
        /\ IF pos.side = "long" THEN bar.low <= sl /\ bar.high >= tp
           ELSE bar.high >= sl /\ bar.low <= tp

\* the TP/SL loop is about to check a position whose bar breaches both
CheckingBothBreached ==
    /\ pc = "tpsl"
    /\ idx <= Len(positions)
    /\ positions[idx].symbol \in DOMAIN market_map
    /\ ~IsNone(positions[idx].exit_plan)
    /\ BothBreached(positions[idx], market_map[positions[idx].symbol])

\* C7: a position whose stop-loss and take-profit are both breached by the
\* bar is closed by the stop: one close record with reason stop_loss or
\* trailing_stop, at the stop price.
C7_StopWinsTie ==
    [][CheckingBothBreached =>
         /\ Len(trade_log') = Len(trade_log) + 1
         /\ trade_log'[Len(trade_log')].symbol = positions[idx].symbol
         /\ trade_log'[Len(trade_log')].reason \in {"stop_loss", "trailing_stop"}
         /\ trade_log'[Len(trade_log')].price = Get(positions[idx].exit_plan, "stop_loss")
      ]_vars

\* C8: a cycle that fails partway leaves portfolio_state.json and
\* trade_log.csv as they were before the cycle.
C8_FailedCycleWritesNothing ==
    (pc = "idle" /\ outcome = "error")
        => /\ portfolio_file = started.portfolio_file
           /\ trade_log = started.trade_log

\* C9: no error escapes the processing of a position or of an action: a
\* cycle that has entered its loops ends by saving the portfolio.
C9_NoErrorEscapes ==
    [][(pc \in {"tpsl", "actions"} /\ pc' = "idle") => outcome' = "saved"]_vars

\* C10: when portfolio_state.json is missing or malformed at cycle start,
\* the executor takes a fresh default portfolio (nav = cash = 10000, no
\* positions), writes it, and the cycle does not fail.
C10_FreshPortfolioOnBadState ==
    [][(pc = "exec" /\ portfolio_file \in {Missing, Malformed})
          => /\ portfolio_file' = Json(DefaultPortfolio)
             /\ ~(pc' = "idle" /\ outcome' = "error")]_vars

\* position i of the running cycle has no price in the cycle's market map
Unpriced(i) == positions[i].symbol \notin DOMAIN market_map

\* C11: while the TP/SL loop runs on the portfolio compute_nav has marked,
\* every position without a price in the market map carries its entry price
\* as current price and zero unrealized P&L, every other position carries
\* the close of its own symbol, the nav was recomputed from these, and every
\* unpriced position the loop has passed is among the positions kept open.
C11_MissingPriceFallsBack ==
    pc = "tpsl" =>
        /\ \A i \in 1..Len(positions) :
              IF Unpriced(i)
              THEN /\ positions[i].current_price = positions[i].entry_price
                   /\ positions[i].unrealized_pnl = 0
              ELSE positions[i].current_price = market_map[positions[i].symbol].close
        /\ idx = 1 => portfolio.nav = Round2(MarkedEquity(portfolio))
        /\ \A i \in 1..Len(positions) :
              (i < idx /\ Unpriced(i))
                 => \E j \in 1..Len(remaining_positions) : remaining_positions[j] = positions[i]

\* C11 witness: the TP/SL loop has finished over an unpriced position and a
\* priced one that was marked away from its entry price.
C11_Witness ==
    /\ pc = "tpsl"
    /\ idx > Len(positions)
    /\ \E i \in 1..Len(positions) : Unpriced(i)
    /\ \E i \in 1..Len(positions) :
          ~Unpriced(i) /\ positions[i].current_price # positions[i].entry_price

\* the action loop is at an open action with a price and a positive size
\* whose size plus entry fee exceeds the available cash
AtUnaffordableOpen ==
    /\ pc = "actions"
    /\ idx <= Len(actions)
    /\ IsOpen(actions[idx])
    /\ actions[idx].symbol \in DOMAIN market_map
    /\ actions[idx].position_size_usd > 0
    /\ actions[idx].position_size_usd
          + (actions[idx].position_size_usd * LeverageOf(actions[idx])) \div FeeDivisor
       > portfolio.cash

\* C12: an open action whose size plus entry fee exceeds the available cash
\* changes neither cash, nor the positions, nor the trade log, and the loop
\* goes on to the next action of the same batch.
C12_UnaffordableOpenRejectedAlone ==
    [][AtUnaffordableOpen =>
         /\ portfolio' = portfolio
         /\ positions' = positions
         /\ trade_log' = trade_log
         /\ pc' = "actions"
         /\ actions' = actions
         /\ idx' = idx + 1
      ]_vars

\* C12 witness: a batch of two opens on different symbols is done; the first
\* costs more than the cash there was, and the only position opened in this
\* cycle is the one of the second.
C12_Witness ==
    /\ pc = "actions"
    /\ Len(actions) = 2
    /\ idx = 3
    /\ IsOpen(actions[1]) /\ IsOpen(actions[2])
    /\ actions[1].symbol # actions[2].symbol
    /\ actions[1].symbol \in DOMAIN market_map
    /\ actions[1].position_size_usd > portfolio.cash + OpenCost(actions[2])
    /\ Len(positions) = Len(remaining_positions) + 1
    /\ positions[Len(positions)].symbol = actions[2].symbol
    /\ positions[Len(positions)].margin = actions[2].position_size_usd

\* the action loop is at an open action with a price, a positive size and
\* a cost (size plus entry fee) the cash covers
AtAffordableOpen ==
    /\ pc = "actions"
    /\ idx <= Len(actions)
    /\ IsOpen(actions[idx])
    /\ actions[idx].symbol \in DOMAIN market_map
    /\ actions[idx].position_size_usd > 0
    /\ actions[idx].position_size_usd
          + (actions[idx].position_size_usd * LeverageOf(actions[idx])) \div FeeDivisor
       <= portfolio.cash

\* C13: an accepted open of size S, leverage L at price P appends a
\* position with margin S, notional S*L and |quantity| = S*L/P on the side
\* asked for, records the fee S*L*0.001 and lowers cash by exactly S + fee;
\* S = 1000, L = 2, P = 50000 from cash 10000 gives notional 2000, quantity
\* 0.04, fee 2 and cash 8998.
C13_OpenAccounting ==
    [][AtAffordableOpen =>
         LET S == actions[idx].position_size_usd
             L == LeverageOf(actions[idx])
             P == market_map[actions[idx].symbol].close
             pos == positions'[Len(positions')]
             rec == trade_log'[Len(trade_log')]
         IN  /\ Len(positions') = Len(positions) + 1
             /\ Len(trade_log') = Len(trade_log) + 1
             /\ pos.symbol = actions[idx].symbol
             /\ pos.margin = S
             /\ pos.notional = S * L
             /\ Abs(pos.quantity) * P = S * L
             /\ pos.quantity > 0 <=> actions[idx].action = "open_long"
             /\ pos.entry_price = P
             /\ rec.fee * FeeDivisor = S * L
             /\ portfolio'.cash = portfolio.cash - S - rec.fee
             /\ (S = 1000 * Dollar /\ L = 2 /\ P = P50k /\ portfolio.cash = StartCash * Dollar)
                  => /\ pos.notional = 2000 * Dollar
                     /\ pos.quantity * 100 = 4 * Coin
                     /\ rec.fee = 2 * Dollar
                     /\ portfolio'.cash = 8998 * Dollar
      ]_vars

\* C13 witness: the scenario has run: open_long BTC of 1000 at leverage 2
\* and price 50000 was the first action on the fresh portfolio, and cash is
\* 8998.
C13_Witness ==
    /\ pc = "actions"
    /\ idx = 2
    /\ actions[1] = Act("BTC", "open_long", 1000, 2, PlanLong)
    /\ market_map["BTC"].close = P50k
    /\ Len(positions) = 1
    /\ positions[1].margin = 1000 * Dollar
    /\ portfolio.cash = 8998 * Dollar

\* margin + (exit_price - entry_price) * quantity - |quantity| * exit_price * 0.001
CloseProceeds(pos, exit_price) ==
    pos.margin + (exit_price - pos.entry_price) * pos.quantity
    - (Abs(pos.quantity) * exit_price) \div FeeDivisor

\* C14: every close changes cash by exactly margin + realized P&L - fee of
\* the closed position and takes it off the open positions.  A TP/SL exit
\* of positions[idx] at the recorded price adds that amount to cash and
\* does not keep the position; close_position adds the amounts of all
\* positions of its symbol and leaves no position of that symbol; what the
\* TP/SL loop did not keep is not in the portfolio when the actions start.
C14_CloseAccounting ==
    [][/\ (pc = "tpsl" /\ Len(trade_log') > Len(trade_log))
            => LET rec == trade_log'[Len(trade_log')]
               IN  /\ Len(trade_log') = Len(trade_log) + 1
                   /\ rec.action = "close_position"
                   /\ rec.symbol = positions[idx].symbol
                   /\ rec.qty = positions[idx].quantity
                   /\ rec.qty # 0
                   /\ portfolio'.cash = portfolio.cash + CloseProceeds(positions[idx], rec.price)
                   /\ remaining_positions' = remaining_positions
       /\ (pc = "tpsl" /\ pc' = "actions")
            => /\ positions' = remaining_positions
               /\ portfolio'.positions = remaining_positions
       /\ (/\ pc = "actions" /\ idx <= Len(actions)
           /\ actions[idx].action = "close_position"
           /\ actions[idx].symbol \in DOMAIN market_map)
            => LET P == market_map[actions[idx].symbol].close
                   hit == SelectSeq(positions, LAMBDA q : q.symbol = actions[idx].symbol)
               IN  /\ portfolio'.cash =
                         portfolio.cash
                         + SumSeq([i \in 1..Len(hit) |-> CloseProceeds(hit[i], P)])
                   /\ Len(trade_log') = Len(trade_log) + Len(hit)
                   /\ Len(positions') = Len(positions) - Len(hit)
                   /\ \A i \in 1..Len(positions') :
                         positions'[i].symbol # actions[idx].symbol
      ]_vars

\* C14 witness: the trade log holds a close by a triggered take-profit and
\* a close by a close_position action, both of nonzero quantity.
C14_Witness ==
    /\ \E i \in 1..Len(trade_log) :
          /\ trade_log[i].action = "close_position"
          /\ trade_log[i].reason = "take_profit"
          /\ trade_log[i].qty # 0
    /\ \E i \in 1..Len(trade_log) :
          /\ trade_log[i].action = "close_position"
          /\ trade_log[i].reason = ""
          /\ trade_log[i].qty # 0

\* the TP/SL loop is about to check a priced position that has an exit plan
CheckingPlan ==
    /\ pc = "tpsl"
    /\ idx <= Len(positions)
    /\ positions[idx].symbol \in DOMAIN market_map
    /\ ~IsNone(positions[idx].exit_plan)

\* the bar breaches the stop of pos
StopBreached(pos, bar) ==
    LET sl == Get(pos.exit_plan, "stop_loss")
    IN  sl # 0 /\ (IF pos.side = "long" THEN bar.low <= sl ELSE bar.high >= sl)

\* the bar breaches the target of pos
TargetBreached(pos, bar) ==
    LET tp == Get(pos.exit_plan, "take_profit")
    IN  tp # 0 /\ (IF pos.side = "long" THEN bar.high >= tp ELSE bar.low <= tp)

\* the close of pos at price is recorded and pos is not kept
FilledAt(pos, price) ==
    /\ Len(trade_log') = Len(trade_log) + 1
    /\ trade_log'[Len(trade_log')].symbol = pos.symbol
    /\ trade_log'[Len(trade_log')].price = price
    /\ trade_log'[Len(trade_log')].realized_pnl =
          (price - pos.entry_price) * pos.quantity
          - (Abs(pos.quantity) * price) \div FeeDivisor
    /\ remaining_positions' = remaining_positions
    /\ pc' = "tpsl"

\* C15: a position whose stop the bar breaches (a long entered at 50000
\* with its stop at 48000, on a bar with low 47500 and high 51000) is
\* filled at the stop price, its realized P&L is (stop - entry) * quantity
\* - fee, and it is removed; a position whose target alone is breached is
\* filled at the target price.
C15_ExitFillsAtTrigger ==
    [][CheckingPlan =>
         LET pos == positions[idx]
             bar == market_map[pos.symbol]
         IN  /\ StopBreached(pos, bar) => FilledAt(pos, Get(pos.exit_plan, "stop_loss"))
             /\ (TargetBreached(pos, bar) /\ ~StopBreached(pos, bar))
                   => FilledAt(pos, Get(pos.exit_plan, "take_profit"))
      ]_vars

\* the bar of the running cycle triggers an exit of pos
ExitDue(pos) ==
    /\ pos.symbol \in DOMAIN market_map
    /\ ~IsNone(pos.exit_plan)
    /\ \/ StopBreached(pos, market_map[pos.symbol])
       \/ TargetBreached(pos, market_map[pos.symbol])

\* C16: in every cycle the exits come before the actions.  While the TP/SL
\* loop runs no action is looked at and no position is opened; when the
\* first action is considered no kept position has an exit due on the bar,
\* and every position not kept has its close record in the trade log; the
\* action loop triggers no risk exit of its own.
C16_ExitsBeforeActions ==
    [][/\ pc = "tpsl"
            => /\ actions' = actions \/ pc' = "idle"
               /\ Len(positions') <= Len(positions)
               /\ \A i \in (Len(trade_log) + 1)..Len(trade_log') :
                     trade_log'[i].action = "close_position"
       /\ (pc = "tpsl" /\ pc' = "actions")
            => /\ idx > Len(positions)
               /\ idx' = 1
               /\ \A i \in 1..Len(positions') : ~ExitDue(positions'[i])
               /\ Len(trade_log) - Len(started.trade_log)
                     = Len(positions) - Len(positions')
               /\ \A i \in (Len(started.trade_log) + 1)..Len(trade_log) :
                     /\ trade_log[i].action = "close_position"
                     /\ trade_log[i].reason # ""
       /\ pc = "actions"
            => \A i \in (Len(trade_log) + 1)..Len(trade_log') : trade_log'[i].reason = ""
      ]_vars

\* C16 witness: the first action of a cycle, an open, is about to be
\* considered after the TP/SL loop of the same cycle closed a position.
C16_Witness ==
    /\ pc = "actions"
    /\ idx = 1
    /\ Len(actions) >= 1
    /\ IsOpen(actions[1])
    /\ Len(trade_log) > Len(started.trade_log)
    /\ trade_log[Len(trade_log)].reason = "take_profit"

\* the sizer of the call looks ATR% up in its bucket table: for the bucket
\* sizers ATR and price are numbers and the price is positive, for
\* calc_position_size the atr_pct it is given is a number
HasAtrPct(c) ==
    IF c.fn = "calc_position_size" THEN AtrPctOf(c.atr, c.price).kind = "num"
    ELSE c.atr.kind = "num" /\ c.price.kind = "num" /\ c.price.v > 0

\* the ATR% looked up for call c is at most that looked up for call d
AtrPctNoHigher(c, d) ==
    IF c.fn = "calc_position_size"
    THEN AtrPctOf(c.atr, c.price).v <= AtrPctOf(d.atr, d.price).v
    ELSE c.atr.v * d.price.v <= d.atr.v * c.price.v

\* C17: every fraction a sizer returns lies in (0, 1], and of two calls of
\* the same sizer that look ATR% up in the bucket table the one with the
\* higher ATR% gets fractions no larger than the other's.
C17_FractionsBoundedMonotone ==
    /\ \A i \in 1..Len(calls) : \A k \in 1..Len(calls[i].result) :
          calls[i].result[k] > 0 /\ calls[i].result[k] <= Full
    /\ \A i, j \in 1..Len(calls) :
          (/\ calls[i].fn = calls[j].fn
           /\ HasAtrPct(calls[i]) /\ HasAtrPct(calls[j])
           /\ AtrPctNoHigher(calls[i], calls[j]))
            => \A k \in 1..Len(calls[i].result) :
                  calls[i].result[k] >= calls[j].result[k]

\* C17 witness: calc_vol_bucket was called in the lowest and then in the
\* highest volatility bucket, and returned different pairs.
C17_Witness ==
    /\ Len(calls) = 2
    /\ calls[1].fn = "calc_vol_bucket" /\ calls[2].fn = "calc_vol_bucket"
    /\ HasAtrPct(calls[1]) /\ HasAtrPct(calls[2])
    /\ 1000 * calls[1].atr.v <= LowVol * calls[1].price.v
    /\ 1000 * calls[2].atr.v > MidVol * calls[2].price.v
    /\ calls[1].result # calls[2].result

\* the safe default pair of a bucket sizer
DefaultPair(fn) == IF fn = "calc_vol_bucket" THEN <<20, 15>> ELSE <<30, 15>>

\* ATR or price is missing (None, or an empty cell) or not positive
Unavailable(x) == x = None \/ x = NaN \/ x.v <= 0

\* C18: a bucket sizer called with ATR or price missing or non-positive
\* returns its safe default pair.
C18_DefaultWhenUnavailable ==
    \A i \in 1..Len(calls) :
        (/\ calls[i].fn \in {"calc_vol_bucket", "calc_pos_bucket"}
         /\ Unavailable(calls[i].atr) \/ Unavailable(calls[i].price))
          => calls[i].result = DefaultPair(calls[i].fn)

FlatSeries(rets) == \A i \in 1..Len(rets) : rets[i] = 0

\* C20: an undefined metric is reported as not-a-number.  For a flat series
\* of two or more bars max_drawdown is 0 and Sharpe is not-a-number;
\* Sortino is not-a-number when no return is negative; Calmar is
\* not-a-number when max_drawdown is not negative; the win rate is
\* not-a-number when there is no trade.
C20_UndefinedIsNaN ==
    /\ metrics.fn = "portfolio_metrics"
         => /\ (FlatSeries(returns) /\ Len(returns) >= 2)
                  => metrics.max_dd.num = 0 /\ metrics.sharpe = NaN
            /\ (\A i \in 1..Len(returns) : returns[i] >= 0) => metrics.sortino = NaN
            /\ metrics.max_dd.num >= 0 => metrics.calmar = NaN
    /\ metrics.fn = "run_backtest"
         => /\ (FlatSeries(returns) /\ Len(returns) >= 2) => metrics.max_drawdown.num = 0
            /\ trades_pnl = <<>> => metrics.win_rate = NaN

\* the records a step appends to the trade log
Appended == SubSeq(trade_log', Len(trade_log) + 1, Len(trade_log'))

\* C21: a step appends one trade record per fill and none otherwise.  A
\* turn of the TP/SL loop appends one close record iff it does not keep the
\* position; an accepted open appends one open record; close_position one
\* close record per position it removes, of that position's quantity;
\* adjust_sl, hold, unknown, rejected and skipped actions, and the steps
\* that load, finish or abort a cycle, append nothing.
C21_OneRecordPerFill ==
    [][/\ Len(trade_log') >= Len(trade_log)
       /\ SubSeq(trade_log', 1, Len(trade_log)) = trade_log
       /\ (pc = "tpsl" /\ idx <= Len(positions) /\ pc' = "tpsl")
            => IF remaining_positions' = remaining_positions
               THEN /\ Len(Appended) = 1
                    /\ Appended[1].action = "close_position"
                    /\ Appended[1].symbol = positions[idx].symbol
                    /\ Appended[1].qty = positions[idx].quantity
               ELSE Appended = <<>>
       /\ (pc = "actions" /\ idx <= Len(actions) /\ pc' = "actions")
            => LET act == actions[idx]
                   gone == SelectSeq(positions, LAMBDA q : q.symbol = act.symbol)
               IN  IF Len(positions') > Len(positions)
                   THEN /\ Len(positions') = Len(positions) + 1
                        /\ Len(Appended) = 1
                        /\ Appended[1].action = act.action
                        /\ IsOpen(act)
                   ELSE IF Len(positions') < Len(positions)
                   THEN /\ act.action = "close_position"
                        /\ Len(Appended) = Len(positions) - Len(positions')
                        /\ Len(Appended) = Len(gone)
                        /\ \A i \in 1..Len(gone) :
                              /\ Appended[i].action = "close_position"
                              /\ Appended[i].symbol = gone[i].symbol
                              /\ Appended[i].qty = gone[i].quantity
                   ELSE Appended = <<>>
       /\ (pc' = "idle" \/ pc \notin {"tpsl", "actions"} \/ pc' # pc) => Appended = <<>>
      ]_vars

\* C21 witness: a batch of a non-fill action followed by a close_position
\* is done, and the cycle has appended exactly the one close record.
C21_Witness ==
    /\ pc = "actions"
    /\ Len(actions) = 2
    /\ idx = 3
    /\ actions[1].action \in {"adjust_sl", "hold"}
    /\ actions[2].action = "close_position"
    /\ Len(trade_log) = Len(started.trade_log) + 1
    /\ trade_log[Len(trade_log)].action = "close_position"
    /\ trade_log[Len(trade_log)].reason = ""

\* C22: an adjust_sl never moves the stop of a long down or the stop of a
\* short up.
C22_StopOnlyTightens ==
    [][(/\ pc = "actions" /\ pc' = "actions"
        /\ idx <= Len(actions)
        /\ actions[idx].action = "adjust_sl")
         => \A i \in 1..Len(positions) :
               LET old == Get(positions[i].exit_plan, "stop_loss")
                   new == Get(positions'[i].exit_plan, "stop_loss")
               IN  old # 0 =>
                     IF positions[i].side = "long" THEN new >= old ELSE new <= old
      ]_vars

\* the stop of pos lies past its own entry price on the profitable side
StopPastEntry(pos) ==
    IF pos.side = "long" THEN Get(pos.exit_plan, "stop_loss") > pos.entry_price
    ELSE Get(pos.exit_plan, "stop_loss") < pos.entry_price

\* C23: the close record of a triggered stop has the reason trailing_stop
\* exactly when the stop lies past the entry price of the position closed,
\* and stop_loss otherwise; either way it is the close at the stop price.
C23_StopLabelByOwnEntry ==
    [][(/\ CheckingPlan
        /\ Len(trade_log') = Len(trade_log) + 1
        /\ trade_log'[Len(trade_log')].reason \in {"stop_loss", "trailing_stop"})
         => /\ trade_log'[Len(trade_log')].reason = "trailing_stop"
                  <=> StopPastEntry(positions[idx])
            /\ FilledAt(positions[idx], Get(positions[idx].exit_plan, "stop_loss"))
      ]_vars

\* the take-profit block fired a threshold: a flag was set or the stage rose
Fired ==
    \/ ~backtest.profit_taken_20 /\ backtest'.profit_taken_20
    \/ ~backtest.profit_taken_40 /\ backtest'.profit_taken_40
    \/ backtest'.tp_stage > backtest.tp_stage

\* a flag was cleared or the stage fell
FlagReset ==
    \/ backtest.profit_taken_20 /\ ~backtest'.profit_taken_20
    \/ backtest.profit_taken_40 /\ ~backtest'.profit_taken_40
    \/ backtest'.tp_stage < backtest.tp_stage

\* C24: in custom_signal_v2 and regime_tp the take-profit block changes the
\* position only by firing a threshold whose flag (stage) was not yet set,
\* which leaves a smaller, still positive fraction; a flag or stage, once
\* set, is cleared only by the full close or by an entry from flat, so that
\* each threshold fires at most once per open trade.
C24_ThresholdsFireOnce ==
    [][/\ backtest.step = "tp"
           => /\ Fired => 0 < backtest'.pos /\ backtest'.pos < backtest.pos
              /\ backtest'.pos # backtest.pos => Fired
              /\ ~FlagReset
       /\ FlagReset
           => \/ backtest.step = "exit" /\ backtest.pos > 0 /\ backtest'.pos = 0
              \/ backtest.step = "entry" /\ backtest.pos = 0 /\ backtest'.pos > 0
      ]_vars

\* a bar on which a threshold that has fired is exceeded again and the
\* take-profit block has left the position alone
C24_Witness ==
    \/ /\ backtest.script = "custom_signal_v2"
       /\ backtest.step = "exit"
       /\ backtest.profit_taken_20 /\ ~backtest.profit_taken_40
       /\ ProfitAbove(backtest.entry_price, backtest.row.close, 2)
       /\ ~ProfitAbove(backtest.entry_price, backtest.row.close, 4)
       /\ backtest.pos = backtest.prev_pos
    \/ /\ backtest.script = "regime_tp"
       /\ backtest.step = "update"
       /\ backtest.tp_stage = 2
       /\ Gt(backtest.row.rsi_14, 80)
       /\ backtest.pos = backtest.prev_pos


\* the ceiling of the position fraction of the running trade
Ceiling ==
    IF backtest.script = "regime_official_v1" THEN backtest.max_pos_for_trade.v ELSE 1000

\* a <= b for exact fractions
RatLE(a, b) == a.n * b.d <= b.n * a.d

\* C25: a scale-in of regime_pullback_add_vol or regime_official_v1 starts
\* from a fraction that is positive and below its ceiling, raises it to at most
\* the ceiling, which is at most 1.0, and sets entry_price to
\* (entry_price * p + price * (p' - p)) / p', a price between the old entry
\* price and the price of the new fill.
C25_ScaleInAveragesEntry ==
    [][(backtest.step = "add" /\ backtest'.pos # backtest.pos)
          => LET p == backtest.pos
                 q == backtest'.pos
                 old == backtest.entry_price
                 new == backtest'.entry_price
                 fill == Rat(backtest.row.close, 1)
             IN  /\ 0 < p /\ p < Ceiling
                 /\ p < q /\ q <= Ceiling /\ Ceiling <= 1000
                 /\ old # None /\ new # None
                 /\ new.n * q * old.d = (old.n * p + backtest.row.close * (q - p) * old.d) * new.d
                 /\ \/ RatLE(old, new) /\ RatLE(new, fill)
                    \/ RatLE(fill, new) /\ RatLE(new, old)
      ]_vars

\* a scale-in at a price other than the entry price has just been made
C25_Witness ==
    /\ backtest.script \in {"regime_pullback_add_vol", "regime_official_v1"}
    /\ backtest.step = "update"
    /\ backtest.prev_pos > 0
    /\ backtest.pos > backtest.prev_pos
    /\ backtest.entry_price # None
    /\ backtest.entry_price # Rat(backtest.row.close, 1)


\* the cycle processes that have not returned from main
InProgress == {id \in 1..Len(children) : children[id].pc # Exited}

\* the cycle processes whose mock_trade_executor.py is running
Executing ==
    {id \in InProgress : children[id].running
                           /\ Pipeline[children[id].pc] = "mock_trade_executor.py"}

\* C26: under scheduler.py a cycle process is in progress only while
\* run_trading_cycle waits for it in subprocess.run, and it is the one
\* started last: at most one cycle is in progress, a new one starts only
\* after the run_trading_cycle of the one before has returned, and two
\* executors never run at once.
C26_OneCycleAtATime ==
    /\ \A id \in InProgress : scheduler.at = "subprocess" /\ id = Len(children)
    /\ Cardinality(InProgress) <= 1
    /\ Cardinality(Executing) <= 1

\* the executor of the second cycle is running, the first cycle is over
C26_Witness ==
    /\ Len(children) = 2
    /\ Executing = {2}
    /\ children[1].pc = Exited

\* the index in Pipeline of the news fetch
News == 6

\* the executor of the cycle process c has been started
ExecutorStarted(c) ==
    \/ Len(c.results) = Len(Pipeline)
    \/ c.pc = Len(Pipeline) /\ c.running

\* C27: a cycle process runs its scripts in the order of the pipeline; the
\* executor is started only after fetch, signals, prepare, dump_bin,
\* inference and the agent have each succeeded; a script other than the
\* news fetch that does not succeed is the last thing the process runs; a
\* failed news fetch is followed by the agent.
C27_ExecutorAfterAllSucceed ==
    \A id \in 1..Len(children) :
        LET c == children[id]
        IN  /\ \A k \in 1..Len(c.results) : c.results[k].script = Pipeline[k]
            /\ ExecutorStarted(c)
                   => \A k \in 1..(Len(Pipeline) - 1) :
                          k # News => c.results[k].result = "ok"
            /\ \A k \in 1..Len(c.results) :
                   (c.results[k].result # "ok" /\ k # News)
                       => k = Len(c.results) /\ c.pc = Exited /\ ~c.running
            /\ (Len(c.results) = News /\ c.results[News].result = "failed")
                   => c.pc = News + 1

\* a cycle whose news fetch failed and whose executor has run
C27_Witness ==
    \E id \in 1..Len(children) :
        /\ Len(children[id].results) = Len(Pipeline)
        /\ children[id].results[News].result = "failed"
        /\ children[id].results[Len(Pipeline)].result = "ok"


\* the agent writes its record: run_agent's success path or its error path
AgentWrites == pc = "agent" /\ pc' = "exec"

\* C28: an agent run that reaches the LLM call puts exactly one record, its
\* own, at the head of the log, with no actions if it is the error record,
\* keeps the records that were there behind it in their order and drops
\* what lies past the 50th; nothing else writes the log; and the actions
\* the executor works on are those of the record at the head of the log.
C28_NewestDecisionOnly ==
    [][/\ AgentWrites
           => LET new == decision_log'.records
              IN  /\ Len(new) = IF Len(History) + 1 > MaxHistory THEN MaxHistory
                                 ELSE Len(History) + 1
                  /\ new[1].timestamp = cycle
                  /\ new[1].analysis_summary = "error" => new[1].actions = <<>>
                  /\ \A k \in 2..Len(new) : new[k].timestamp = History[k - 1].timestamp
       /\ ~AgentWrites => decision_log' = decision_log
       /\ pc' \in {"tpsl", "actions"} => actions' = decision_log'.records[1].actions
      ]_vars

\* the executor works on the decision of the second agent run, which
\* pushed the oldest record out of a full log
C28_Witness ==
    /\ pc = "actions"
    /\ decision_log.kind = "json"
    /\ Len(decision_log.records) = MaxHistory
    /\ decision_log.records[1].timestamp = 2
    /\ decision_log.records[2].timestamp = 1
    /\ decision_log.records[MaxHistory].timestamp = 3 - MaxHistory
    /\ actions # <<>>


\* in_trade, the position and the entry price (and in flowchart the entry
\* side) of the locals b agree
TradeConsistent(b) ==
    /\ b.in_trade <=> b.pos # 0
    /\ b.in_trade <=> b.entry_price # None
    /\ b.script = "flowchart"
           => /\ b.entry_side = Str("long") <=> b.pos = 1000
              /\ b.entry_side = Str("short") <=> b.pos = -1000

\* C29: in regime_pullback_add_vol and flowchart, at the end of every bar
\* and after the loop, in_trade holds iff the position is nonzero iff
\* entry_price is set (in flowchart entry_side is long iff the position is
\* 1, short iff it is -1); trades_pnl gets one entry when the exit block
\* takes a nonzero position to zero, one after the loop if a position is
\* still open, and none otherwise.
C29_OneEntryPerRoundTrip ==
    [][backtest.script \in {"regime_pullback_add_vol", "flowchart"}
          => LET booked == Len(backtest'.trades_pnl) - Len(backtest.trades_pnl)
             IN  /\ backtest'.step \in {"row", "done"} => TradeConsistent(backtest')
                 /\ backtest.step = "exit"
                        => booked = IF backtest.pos # 0 /\ backtest'.pos = 0 THEN 1 ELSE 0
                 /\ backtest'.step = "done"
                        => booked = IF backtest.pos # 0 THEN 1 ELSE 0
                 /\ (backtest.step # "exit" /\ backtest'.step # "done") => booked = 0
      ]_vars

\* a flowchart run that closed one trade, opened another on the same bar and
\* booked it after the loop
C29_Witness ==
    /\ backtest.script = "flowchart"
    /\ backtest.step = "done"
    /\ backtest.in_trade
    /\ backtest.entry_side = Str("short")
    /\ Len(backtest.trades_pnl) = 2
    /\ backtest.trades_pnl[1].bar + 1 = backtest.i


\* the trade records of the running cycle, and their fees
CycleRecords == SubSeq(trade_log, Len(started.trade_log) + 1, Len(trade_log))
FeesThisCycle == SumSeq([i \in 1..Len(CycleRecords) |-> CycleRecords[i].fee])

\* the cycle's last step, the final compute_nav and the save, in a cycle in
\* which no take-profit or stop was triggered
FinalizingActionsOnly ==
    /\ pc = "actions"
    /\ idx > Len(actions)
    /\ outcome' = "saved"
    /\ \A i \in 1..Len(CycleRecords) : CycleRecords[i].reason = ""

\* an action that fills nothing: adjust_sl, hold, a rejected or a skipped one
ActionWithoutFill ==
    /\ pc = "actions"
    /\ pc' = "actions"
    /\ idx' = idx + 1
    /\ trade_log' = trade_log

Quantities(poss) == [i \in 1..Len(poss) |-> poss[i].quantity]

\* C30 as stated: the NAV the final compute_nav stores is the NAV of the
\* mark-to-market at the start of the cycle less exactly the fees of the
\* cycle's opens and closes.
C30_NavLoweredByExactFees ==
    [][FinalizingActionsOnly => portfolio_file'.obj.nav = portfolio.nav - FeesThisCycle]_vars

\* C30: at unchanged prices the equity (cash plus margins plus unrealized
\* P&L) falls by exactly the fees of the cycle's opens and closes, and the
\* NAV the final compute_nav stores is that equity rounded to the cent;
\* adjust_sl, hold, rejected and skipped actions leave cash and quantities
\* as they are.
C30_NavChangesOnlyByFees ==
    [][/\ FinalizingActionsOnly
           => portfolio_file'.obj.nav
                 = Round2(TotalEquity(portfolio_file.obj, market_map) - FeesThisCycle)
       /\ ActionWithoutFill
           => /\ portfolio'.cash = portfolio.cash
              /\ Quantities(positions') = Quantities(positions)
      ]_vars

\* a cycle has ended whose one fill, an open with a fee of 1.004, took the
\* NAV from 10000.00 to 9999.00
C30_Witness ==
    /\ pc = "idle"
    /\ outcome = "saved"
    /\ Len(trade_log) = 1
    /\ trade_log[1].fee * 1000 = 1004 * Dollar
    /\ portfolio_file.kind = "json"
    /\ portfolio_file.obj.nav = 9999 * Dollar
    /\ Len(portfolio_file.obj.positions) = 1


====
